---- MODULE Spec2Model ----
(***************************************************************************)
(* Transform-feedback conformance tests (webgl2_deqp_ts).                  *)
(*                                                                         *)
(* Three state machines share this module:                                 *)
(*   SpecTopo     the primitive-topology arithmetic applied to bounded     *)
(*                inputs,                                                  *)
(*   SpecRunTest  one execution of TransformFeedbackCase.runTest, one GL   *)
(*                call group per step, against a nondeterministic GPU,     *)
(*   Spec         the runner callback runTestCases driving a tree of       *)
(*                TransformFeedbackCase objects.                           *)
(* A machine that is not running keeps its variables at their idle value.  *)
(***************************************************************************)
EXTENDS Integers, Sequences, FiniteSets, TLC

VARIABLES
    \* ---- the page
    callbacks,      \* runTestCases callbacks the page has run, modulo 2
    \* ---- SpecTopo
    tPc,            \* "idle" | "in" | "count" | "done"
    tPrim,          \* primitiveType under test
    tN,             \* numElements / numInputs
    tOutNdx,        \* outNdx handed to getAttributeIndex
    tCount,         \* result of getTransformFeedbackOutputCount
    tPrimCount,     \* result of getTransformFeedbackPrimitiveCount
    tIndex,         \* result of getAttributeIndex
    \* ---- Spec: the runner (stateMachine, DeqpTest) and its test cases
    scheduled,      \* a runTestCases callback is pending (stateMachine.runCallback)
    terminated,     \* stateMachine.terminate() was called
    urlFilter,      \* the filter parameter of window.location, or Null
    stateFilter,    \* state.filter
    currentTest,    \* state.currentTest
    lastResult,     \* DeqpTest.lastResult
    spec,           \* DeqpTest.spec of every node of the test tree
    cursor,         \* DeqpTest.currentTest of every node
    cases,          \* the fields of every TransformFeedbackCase
    glErrors,       \* GL errors the context has raised so far
    faulty,         \* the case and script on which the context raises an error every time
    \* ---- Spec: history of the calls the runner made
    initCalls,      \* init() calls per case
    deinitCalls,    \* deinit() calls per case
    live,           \* cases whose init() was called and whose deinit() was not yet
    initWhileLive,  \* some init() was called while an earlier case was live
    iterCase,       \* the case whose iterate() was called last
    iterCalls,      \* iterate() calls on iterCase since its init()
    scriptRun,      \* the script the last iterate() call handed to runTest
    lastOutcome,    \* "CONTINUE" | "STOP" | "throw" of the last iterate() call
    iterAfterThrow, \* iterate() was called on a case after one of its calls threw
    lastInit,       \* the last init() call: what the context did, what init() did
    iterated,       \* the fields of iterCase as its last iterate() call left them
    glObjects,      \* per case, the kinds of objects it created that the context still holds
    returned,       \* what the next() calls on the root returned since the last reset()
    resets,         \* reset() calls on the root
    \* ---- SpecRunTest: one execution of runTest
    rtPc,           \* "idle" | "setup" | "begin" | "draw" | "endQuery" | "compare"
                    \* | "query" | "image" | "done" | "thrown"
    rtPrim,         \* m_primitiveType
    rtCalls,        \* the script (calls)
    rtLayout,       \* name of the layout init() derived
    rtNumInputs,    \* numInputs
    rtNumOutputs,   \* numOutputs
    rtI,            \* i of the draw loop, bufferNdx of the compare loop
    rtOffset,       \* offset of the draw loop
    rtTfEnabled,    \* tfEnabled of the draw loop
    rtOutputsOk,    \* outputsOk
    rtImagesOk,     \* imagesOk
    rtQueryOk,      \* queryOk
    rtExpected,     \* expectedCount
    rtNumPrimitives,\* numPrimitives of the check after mapping
    rtResult,       \* what runTest returned or threw
    glTf,           \* transform feedback of the context: "inactive" | "active" | "paused"
    glQuery,        \* primitiveQuery: "none" | "created" | "active" | "ended" | "deleted"
    glBuffers,      \* the output buffers after allocation
    glLog,          \* transform feedback and draw commands issued in the capture pass
    rtReadbacks,    \* getBufferSubData calls that returned
    rtReads,        \* component comparisons made
    rtGuardsRead,   \* guard checks made, per buffer: bytes seen and verdict
    rtChecks,       \* which of the three checks have been made
    \* ---- SpecTypePath (gluVarTypeUtil, computeInputLayout, computeTransformFeedbackOutputs)
    tpPc,           \* "idle" | "in" | "validated" | "parsed" | "iterating" | "layout" | "outputs"
                    \* | "called"
    tpType,         \* the root VarType
    tpSteps,        \* the (type_, index_) arguments given to new VarTypeComponent, in order
    tpPath,         \* the VarTypeComponent[] built from them
    tpRange,        \* <<begin, end>> handed to isValidTypePath / getVarType
    tpValid,        \* what isValidTypePath returned or threw
    tpVarType,      \* what getVarType returned or threw
    tpText,         \* nameWithPath handed to parseTypePath, a sequence of characters
    tpParsed,       \* what parseTypePath returned or threw
    tpIter,         \* the VectorTypeIterator: m_type, m_path, and whether a call on it threw
    tpYield,        \* getPath() of every position the loop visited while !end()
    tpNexts,        \* next() calls made
    tpRound,        \* what the round trip of the current position gave
    tpProgSpec,     \* the ProgramSpec: varyings, transform feedback varyings, buffer mode, point size
    tpLayout,       \* what computeInputLayout returned or threw, with the attributes it pushed
    tpOutputs,      \* what computeTransformFeedbackOutputs and the strides of init gave
    tpCall,         \* a call of another utility: its name and its arguments
    tpResult        \* what that call returned or threw

topoVars == <<tPc, tPrim, tN, tOutNdx, tCount, tPrimCount, tIndex>>

runnerVars ==
    <<scheduled, terminated, urlFilter, stateFilter, currentTest, lastResult,
      spec, cursor, cases, glErrors, faulty, callbacks>>

historyVars ==
    <<initCalls, deinitCalls, live, initWhileLive, iterCase, iterCalls,
      scriptRun, lastOutcome, iterAfterThrow, lastInit, iterated, glObjects,
      returned, resets>>

rtVars ==
    <<rtPc, rtPrim, rtCalls, rtLayout, rtNumInputs, rtNumOutputs, rtI, rtOffset,
      rtTfEnabled, rtOutputsOk, rtImagesOk, rtQueryOk, rtExpected,
      rtNumPrimitives, rtResult, glTf, glQuery, glBuffers, glLog, rtReadbacks,
      rtReads, rtGuardsRead, rtChecks>>

tpVars ==
    <<tpPc, tpType, tpSteps, tpPath, tpRange, tpValid, tpVarType, tpText, tpParsed,
      tpIter, tpYield, tpNexts, tpRound, tpProgSpec, tpLayout, tpOutputs,
      tpCall, tpResult>>

vars == <<topoVars, runnerVars, historyVars, rtVars, tpVars>>

(***************************************************************************)
(* Bounds of the model.                                                    *)
(***************************************************************************)
MaxN == 7

\* GL errors the context raises during one run of the runner.
MaxGlErrors == 2

\* iterate() calls on one case that the history counts; further calls leave the count.
MaxIterCalls == 12

(***************************************************************************)
(* JavaScript numbers.  Every number the modelled code computes is a       *)
(* non-negative rational whose denominator is 1, 2 or 3 (the only          *)
(* divisions are "/ 2" and "/ 3"), so a number is a pair <<n, d>> standing *)
(* for n/d.  "/" is the real division of JavaScript, not a truncating one. *)
(***************************************************************************)
Num(i) == <<i, 1>>

jsDiv(a, k) == <<a[1], a[2] * k>>

jsAdd(a, b) == <<a[1] * b[2] + b[1] * a[2], a[2] * b[2]>>

jsSub(a, b) == <<a[1] * b[2] - b[1] * a[2], a[2] * b[2]>>

jsMulInt(a, k) == <<a[1] * k, a[2]>>

\* a % k for a >= 0 (fmod)
jsMod(a, k) == <<a[1] % (k * a[2]), a[2]>>

jsEq(a, b) == a[1] * b[2] = b[1] * a[2]

jsLt(a, b) == a[1] * b[2] < b[1] * a[2]

jsIsInteger(a) == a[1] % a[2] = 0

\* ToIntegerOrInfinity of a non-negative number: truncation
jsTrunc(a) == a[1] \div a[2]

jsMax(i, j) == IF i > j THEN i ELSE j

(***************************************************************************)
(* deqpDraw.primitiveType                                                  *)
(***************************************************************************)
primitiveType ==
    {"TRIANGLES", "TRIANGLE_STRIP", "TRIANGLE_FAN", "LINES", "LINE_STRIP",
     "LINE_LOOP", "POINTS", "PATCHES"}

\* The topologies the three switch statements know.
DrawTopologies == primitiveType \ {"PATCHES"}

\* A function result: a value, or the Error the function threw.
Returned(v) == [threw |-> FALSE, val |-> v]

Thrown(msg) == [threw |-> TRUE, val |-> msg]

(***************************************************************************)
(* getTransformFeedbackOutputCount                                         *)
(***************************************************************************)
getTransformFeedbackOutputCount_dropRemainder(prim, numElements) ==
    CASE prim = "TRIANGLES"      -> Returned(numElements)
      [] prim = "TRIANGLE_STRIP" -> Returned(jsMax(0, numElements - 2) * 3)
      [] prim = "TRIANGLE_FAN"   -> Returned(jsMax(0, numElements - 2) * 3)
      [] prim = "LINES"          -> Returned(numElements - (numElements % 2))
      [] prim = "LINE_STRIP"     -> Returned(jsMax(0, numElements - 1) * 2)
      [] prim = "LINE_LOOP"      -> Returned(IF numElements > 1 THEN numElements * 2 ELSE 0)
      [] prim = "POINTS"         -> Returned(numElements)
      [] OTHER                   -> Thrown("Unrecognized primitiveType")

getTransformFeedbackOutputCount(prim, numElements) ==
    CASE prim = "TRIANGLES"      -> Returned(numElements - (numElements % 3))
      [] prim = "TRIANGLE_STRIP" -> Returned(jsMax(0, numElements - 2) * 3)
      [] prim = "TRIANGLE_FAN"   -> Returned(jsMax(0, numElements - 2) * 3)
      [] prim = "LINES"          -> Returned(numElements - (numElements % 2))
      [] prim = "LINE_STRIP"     -> Returned(jsMax(0, numElements - 1) * 2)
      [] prim = "LINE_LOOP"      -> Returned(IF numElements > 1 THEN numElements * 2 ELSE 0)
      [] prim = "POINTS"         -> Returned(numElements)
      [] OTHER                   -> Thrown("Unrecognized primitiveType")

(***************************************************************************)
(* getTransformFeedbackPrimitiveCount: "numElements / 3" and               *)
(* "numElements / 2" are JavaScript divisions.                             *)
(***************************************************************************)
getTransformFeedbackPrimitiveCount(prim, numElements) ==
    CASE prim = "TRIANGLES"      ->
            Returned(jsSub(Num(numElements), jsDiv(Num(numElements), 3)))
      [] prim = "TRIANGLE_STRIP" -> Returned(Num(jsMax(0, numElements - 2)))
      [] prim = "TRIANGLE_FAN"   -> Returned(Num(jsMax(0, numElements - 2)))
      [] prim = "LINES"          ->
            Returned(jsSub(Num(numElements), jsDiv(Num(numElements), 2)))
      [] prim = "LINE_STRIP"     -> Returned(Num(jsMax(0, numElements - 1)))
      [] prim = "LINE_LOOP"      -> Returned(Num(IF numElements > 1 THEN numElements ELSE 0))
      [] prim = "POINTS"         -> Returned(Num(numElements))
      [] OTHER                   -> Thrown("Unrecognized primitiveType")

(***************************************************************************)
(* getAttributeIndex: "outNdx / 3" and "outNdx / 2" are JavaScript         *)
(* divisions, "%" is the remainder of JavaScript.                          *)
(***************************************************************************)
getAttributeIndex(prim, numInputs, outNdx) ==
    CASE prim = "TRIANGLES" -> Returned(Num(outNdx))
      [] prim = "LINES"     -> Returned(Num(outNdx))
      [] prim = "POINTS"    -> Returned(Num(outNdx))
      [] prim = "TRIANGLE_STRIP" ->
            LET triNdx == jsDiv(Num(outNdx), 3)
                vtxNdx == outNdx % 3
            IN  Returned(IF ~jsEq(jsMod(triNdx, 2), Num(0)) /\ vtxNdx < 2
                         THEN jsSub(jsAdd(triNdx, Num(1)), Num(vtxNdx))
                         ELSE jsAdd(triNdx, Num(vtxNdx)))
      [] prim = "TRIANGLE_FAN" ->
            Returned(IF outNdx % 3 # 0
                     THEN jsAdd(jsDiv(Num(outNdx), 3), Num(outNdx % 3))
                     ELSE Num(0))
      [] prim = "LINE_STRIP" ->
            Returned(jsAdd(jsDiv(Num(outNdx), 2), Num(outNdx % 2)))
      [] prim = "LINE_LOOP" ->
            LET inNdx == jsAdd(jsDiv(Num(outNdx), 2), Num(outNdx % 2))
            IN  Returned(IF jsLt(inNdx, Num(numInputs)) THEN inNdx ELSE Num(0))
      [] OTHER -> Thrown("Unrecognized primitiveType")


(***************************************************************************)
(* DrawCall and the static scripts of TransformFeedbackCase.s_iterate      *)
(***************************************************************************)
dc(numElements, tfEnabled) ==
    [numElements |-> numElements, transformFeedbackEnabled |-> tfEnabled]

s_iterate_testCases ==
    [elemCount1   |-> <<dc(1, TRUE)>>,
     elemCount2   |-> <<dc(2, TRUE)>>,
     elemCount3   |-> <<dc(3, TRUE)>>,
     elemCount4   |-> <<dc(4, TRUE)>>,
     elemCount123 |-> <<dc(123, TRUE)>>,
     basicPause1  |-> <<dc(64, FALSE), dc(64, TRUE), dc(64, TRUE)>>,
     basicPause2  |-> <<dc(13, TRUE), dc(5, TRUE), dc(17, FALSE), dc(3, TRUE),
                        dc(7, FALSE)>>,
     startPaused  |-> <<dc(123, FALSE), dc(123, TRUE)>>,
     random1      |-> <<dc(65, TRUE), dc(135, FALSE), dc(74, TRUE), dc(16, FALSE),
                        dc(226, FALSE), dc(9, TRUE), dc(174, FALSE)>>,
     random2      |-> <<dc(217, TRUE), dc(171, TRUE), dc(147, TRUE),
                        dc(152, FALSE), dc(55, TRUE)>>]

s_iterate_iterations ==
    <<"elemCount1", "elemCount2", "elemCount3", "elemCount4", "elemCount123",
      "basicPause1", "basicPause2", "startPaused", "random1", "random2">>

(***************************************************************************)
(* computeTransformFeedbackPrimitiveCount, for a topology the switch of    *)
(* getTransformFeedbackPrimitiveCount knows.                               *)
(***************************************************************************)
RECURSIVE primCountLoop(_, _, _, _)
primCountLoop(prim, array, i, primCount) ==
    IF i > Len(array) THEN primCount
    ELSE primCountLoop(prim, array, i + 1,
            IF array[i].transformFeedbackEnabled
            THEN jsAdd(primCount,
                       getTransformFeedbackPrimitiveCount(prim, array[i].numElements).val)
            ELSE primCount)

RECURSIVE primCountLoop_allCalls(_, _, _, _)
primCountLoop_allCalls(prim, array, i, primCount) ==
    IF i > Len(array) THEN primCount
    ELSE primCountLoop_allCalls(prim, array, i + 1,
            jsAdd(primCount,
                  getTransformFeedbackPrimitiveCount(prim, array[i].numElements).val))

computeTransformFeedbackPrimitiveCount_allCalls(prim, array) ==
    primCountLoop_allCalls(prim, array, 1, Num(0))

computeTransformFeedbackPrimitiveCount(prim, array) ==
    primCountLoop(prim, array, 1, Num(0))

(***************************************************************************)
(* The GPU.  What GL_TRANSFORM_FEEDBACK_PRIMITIVES_WRITTEN counts for one  *)
(* draw call with capture active (OpenGL ES 3.0, 2.14), and the values the *)
(* query may return: the count of a conforming implementation, or 0 of one *)
(* that captures nothing.                                                  *)
(***************************************************************************)
glPrimitivesWritten(prim, n) ==
    CASE prim = "TRIANGLES"      -> n \div 3
      [] prim = "TRIANGLE_STRIP" -> jsMax(0, n - 2)
      [] prim = "TRIANGLE_FAN"   -> jsMax(0, n - 2)
      [] prim = "LINES"          -> n \div 2
      [] prim = "LINE_STRIP"     -> jsMax(0, n - 1)
      [] prim = "LINE_LOOP"      -> IF n > 1 THEN n ELSE 0
      [] OTHER                   -> n

RECURSIVE glQueryWritten(_, _, _)
glQueryWritten(prim, calls, i) ==
    IF i > Len(calls) THEN 0
    ELSE (IF calls[i].transformFeedbackEnabled
          THEN glPrimitivesWritten(prim, calls[i].numElements) ELSE 0)
         + glQueryWritten(prim, calls, i + 1)

glQueryResult(query, prim, calls) ==
    IF query = "written" THEN glQueryWritten(prim, calls, 1) ELSE 0

\* What the context does during one runTest, as far as the result depends on it.
\* The GLU_EXPECT_NO_ERROR of runTest that sees the error: one of the output
\* buffer setup (lines 1153-1173), one inside the try block of the draw loop
\* (lines 1235-1266), or one of the others, which all come after the
\* attribute buffer was created.
ThrowPoints == {"buffer setup", "draw loop", "elsewhere"}

GpuRuns ==
    {g \in [glError : BOOLEAN, outputsOk : BOOLEAN, imagesOk : BOOLEAN,
             query : {"written", "zero"}, throwAt : ThrowPoints \cup {"none"}] :
        g.glError <=> g.throwAt # "none"}

(***************************************************************************)
(* TransformFeedbackCase.runTest as iterate() sees it: it throws when a    *)
(* GLU_EXPECT_NO_ERROR sees an error, and returns the conjunction of its   *)
(* three checks otherwise.  SpecRunTest runs it step by step.              *)
(***************************************************************************)
runTest(prim, calls, gpu) ==
    LET expectedCount == computeTransformFeedbackPrimitiveCount(prim, calls)
        numPrimitives == glQueryResult(gpu.query, prim, calls)
        queryOk       == jsEq(Num(numPrimitives), expectedCount)
    IN  IF gpu.glError THEN Thrown("gl.GetError() returned an error")
        ELSE Returned(gpu.outputsOk /\ gpu.imagesOk /\ queryOk)

Null == "null"

\* No object: init() or iterate() has not been called on any case.
NoObject == [none |-> TRUE]

(***************************************************************************)
(* gluShaderUtil: the DataType enum and its classification tables.         *)
(***************************************************************************)
DataType ==
    <<"INVALID",
      "FLOAT", "FLOAT_VEC2", "FLOAT_VEC3", "FLOAT_VEC4",
      "FLOAT_MAT2", "FLOAT_MAT2X3", "FLOAT_MAT2X4",
      "FLOAT_MAT3X2", "FLOAT_MAT3", "FLOAT_MAT3X4",
      "FLOAT_MAT4X2", "FLOAT_MAT4X3", "FLOAT_MAT4",
      "INT", "INT_VEC2", "INT_VEC3", "INT_VEC4",
      "UINT", "UINT_VEC2", "UINT_VEC3", "UINT_VEC4",
      "BOOL", "BOOL_VEC2", "BOOL_VEC3", "BOOL_VEC4">>

\* The number the enum gives a DataType.
DataTypeValue(dataType) == (CHOOSE i \in 1..Len(DataType) : DataType[i] = dataType) - 1

getDataTypeVector(scalarType, size) ==
    IF scalarType \in {"FLOAT", "INT", "UINT", "BOOL"}
    THEN DataType[(DataTypeValue(scalarType) + size - 1) + 1]
    ELSE "INVALID"

getDataTypeFloatVec(vecSize) == getDataTypeVector("FLOAT", vecSize)

isDataTypeMatrix(dataType) ==
    dataType \in {"FLOAT_MAT2", "FLOAT_MAT2X3", "FLOAT_MAT2X4",
                  "FLOAT_MAT3X2", "FLOAT_MAT3", "FLOAT_MAT3X4",
                  "FLOAT_MAT4X2", "FLOAT_MAT4X3", "FLOAT_MAT4"}

isDataTypeScalar(dataType) == dataType \in {"FLOAT", "INT", "UINT", "BOOL"}

isDataTypeVector(dataType) ==
    dataType \in {"FLOAT_VEC2", "FLOAT_VEC3", "FLOAT_VEC4",
                  "INT_VEC2", "INT_VEC3", "INT_VEC4",
                  "UINT_VEC2", "UINT_VEC3", "UINT_VEC4",
                  "BOOL_VEC2", "BOOL_VEC3", "BOOL_VEC4"}

isDataTypeScalarOrVector(dataType) ==
    dataType \in {"FLOAT", "FLOAT_VEC2", "FLOAT_VEC3", "FLOAT_VEC4",
                  "INT", "INT_VEC2", "INT_VEC3", "INT_VEC4",
                  "UINT", "UINT_VEC2", "UINT_VEC3", "UINT_VEC4",
                  "BOOL", "BOOL_VEC2", "BOOL_VEC3", "BOOL_VEC4"}

getDataTypeMatrixNumRows(dataType) ==
    CASE dataType \in {"FLOAT_MAT2", "FLOAT_MAT3X2", "FLOAT_MAT4X2"} -> 2
      [] dataType \in {"FLOAT_MAT2X3", "FLOAT_MAT3", "FLOAT_MAT4X3"} -> 3
      [] dataType \in {"FLOAT_MAT2X4", "FLOAT_MAT3X4", "FLOAT_MAT4"} -> 4

getDataTypeMatrixNumColumns(dataType) ==
    CASE dataType \in {"FLOAT_MAT2", "FLOAT_MAT2X3", "FLOAT_MAT2X4"} -> 2
      [] dataType \in {"FLOAT_MAT3X2", "FLOAT_MAT3", "FLOAT_MAT3X4"} -> 3
      [] dataType \in {"FLOAT_MAT4X2", "FLOAT_MAT4X3", "FLOAT_MAT4"} -> 4

getDataTypeScalarSize(dataType) ==
    CASE isDataTypeScalar(dataType) -> 1
      [] dataType \in {"FLOAT_VEC2", "INT_VEC2", "UINT_VEC2", "BOOL_VEC2"} -> 2
      [] dataType \in {"FLOAT_VEC3", "INT_VEC3", "UINT_VEC3", "BOOL_VEC3"} -> 3
      [] dataType \in {"FLOAT_VEC4", "INT_VEC4", "UINT_VEC4", "BOOL_VEC4"} -> 4
      [] dataType = "FLOAT_MAT2" -> 4
      [] dataType \in {"FLOAT_MAT2X3", "FLOAT_MAT3X2"} -> 6
      [] dataType \in {"FLOAT_MAT2X4", "FLOAT_MAT4X2"} -> 8
      [] dataType = "FLOAT_MAT3" -> 9
      [] dataType \in {"FLOAT_MAT3X4", "FLOAT_MAT4X3"} -> 12
      [] dataType = "FLOAT_MAT4" -> 16

getDataTypeScalarTypeAsDataType(dataType) ==
    CASE DataTypeValue(dataType) \in 1..13  -> "FLOAT"
      [] DataTypeValue(dataType) \in 14..17 -> "INT"
      [] DataTypeValue(dataType) \in 18..21 -> "UINT"
      [] DataTypeValue(dataType) \in 22..25 -> "BOOL"

(***************************************************************************)
(* gluVarType: VarType is a basic type with a precision, an array of an    *)
(* element type, or a struct of named members.                             *)
(***************************************************************************)
UNSIZED_ARRAY == -1

newTypeBasic(basicType, precision) ==
    [m_type |-> "TYPE_BASIC", type |-> basicType, precision |-> precision]

newTypeArray(elementType, arraySize) ==
    [m_type |-> "TYPE_ARRAY", elementType |-> elementType, size |-> arraySize]

newStructMember(name, type) == [m_name |-> name, m_type |-> type]

newTypeStruct(members) == [m_type |-> "TYPE_STRUCT", m_members |-> members]

isBasicType(t) == t.m_type = "TYPE_BASIC"

isArrayType(t) == t.m_type = "TYPE_ARRAY"

isStructType(t) == t.m_type = "TYPE_STRUCT"

RECURSIVE getScalarSize(_)
getScalarSize(t) ==
    CASE isBasicType(t)  -> getDataTypeScalarSize(t.type)
      [] isArrayType(t)  -> getScalarSize(t.elementType) * t.size
      [] isStructType(t) ->
            LET RECURSIVE members(_)
                members(iter) ==
                    IF iter = 0 THEN 0
                    ELSE members(iter - 1) + getScalarSize(t.m_members[iter].m_type)
            IN  members(Len(t.m_members))

\* VarType.is between two references to the same root object, as the round
\* trip compares them: element types and struct data are the same objects.
VarType_is(t, other) ==
    /\ t.m_type = other.m_type
    /\ t = other

(***************************************************************************)
(* gluVarTypeUtil: VarTypeComponent.  ComponentType is an enum, so         *)
(* STRUCT_MEMBER is the number 0, and constructor arguments go through     *)
(* JavaScript's `x || default`, which takes the default for 0.             *)
(***************************************************************************)
ComponentType == <<"STRUCT_MEMBER", "ARRAY_ELEMENT", "MATRIX_COLUMN", "VECTOR_COMPONENT">>

ComponentTypeValue(type_) == (CHOOSE i \in 1..Len(ComponentType) : ComponentType[i] = type_) - 1

ComponentType_length == (2 * Len(ComponentType)) \div 2

VarTypeComponent(type_, index_) ==
    [type  |-> IF ComponentTypeValue(type_) = 0 THEN Null ELSE type_,
     index |-> IF index_ = 0 THEN ComponentType_length ELSE index_]

VarTypeComponent_isnt(c, other) == c.type # other.type \/ c.index # other.index

inBounds(x, a, b) == a <= x /\ x < b

(***************************************************************************)
(* isValidTypePath(type, array, begin, end); pathIter counts from 0.       *)
(***************************************************************************)
RECURSIVE validMembersAndElements(_, _, _, _)
validMembersAndElements(curType, array, pathIter, end) ==
    IF pathIter = end
    THEN [invalid |-> FALSE, curType |-> curType, pathIter |-> pathIter]
    ELSE LET element == array[pathIter + 1] IN
         IF element.type = "STRUCT_MEMBER"
         THEN IF ~isStructType(curType)
                 \/ ~inBounds(element.index, 0, Len(curType.m_members))
              THEN [invalid |-> TRUE, curType |-> curType, pathIter |-> pathIter]
              ELSE validMembersAndElements(curType.m_members[element.index + 1].m_type,
                                           array, pathIter + 1, end)
         ELSE IF element.type = "ARRAY_ELEMENT"
         THEN IF ~isArrayType(curType)
                 \/ (curType.size # UNSIZED_ARRAY
                     /\ ~inBounds(element.index, 0, curType.size))
              THEN [invalid |-> TRUE, curType |-> curType, pathIter |-> pathIter]
              ELSE validMembersAndElements(curType.elementType, array, pathIter + 1, end)
         ELSE [invalid |-> FALSE, curType |-> curType, pathIter |-> pathIter]

isValidTypePath(type, array, begin, end) ==
    CHOOSE result \in {
        LET curType == w.curType
            pathIter == w.pathIter
        IN
        IF w.invalid THEN Returned(FALSE)
        ELSE IF pathIter = end THEN Returned(TRUE)
        ELSE IF array[pathIter + 1].type \notin {"MATRIX_COLUMN", "VECTOR_COMPONENT"}
        THEN Thrown("Not a matrix or a vector")
        ELSE IF ~isBasicType(curType) THEN Returned(FALSE)
        ELSE LET isColumn == array[pathIter + 1].type = "MATRIX_COLUMN" IN
             IF isColumn /\ ~isDataTypeMatrix(curType.type) THEN Returned(FALSE)
             ELSE LET basicType == IF isColumn
                                   THEN getDataTypeFloatVec(getDataTypeMatrixNumRows(curType.type))
                                   ELSE curType.type
                      afterColumn == IF isColumn THEN pathIter + 1 ELSE pathIter
                  IN  IF afterColumn # end /\ array[afterColumn + 1].type = "VECTOR_COMPONENT"
                      THEN IF ~isDataTypeVector(basicType) THEN Returned(FALSE)
                           ELSE Returned(afterColumn + 1 = end)
                      ELSE Returned(afterColumn = end)
        : w \in {validMembersAndElements(type, array, begin, end)}} : TRUE

(***************************************************************************)
(* getVarType(type, array, start, end)                                     *)
(***************************************************************************)
RECURSIVE walkMembersAndElements(_, _, _, _)
walkMembersAndElements(curType, array, pathIter, end) ==
    IF pathIter = end THEN [curType |-> curType, pathIter |-> pathIter]
    ELSE LET element == array[pathIter + 1] IN
         IF element.type = "STRUCT_MEMBER"
         THEN walkMembersAndElements(curType.m_members[element.index + 1].m_type,
                                     array, pathIter + 1, end)
         ELSE IF element.type = "ARRAY_ELEMENT"
         THEN walkMembersAndElements(curType.elementType, array, pathIter + 1, end)
         ELSE [curType |-> curType, pathIter |-> pathIter]

getVarType(type, array, start, end) ==
    CHOOSE result \in {
    IF valid.threw THEN valid
    ELSE IF ~valid.val THEN Thrown("Type is invalid")
    ELSE CHOOSE walked \in {
         LET curType == w.curType
             pathIter == w.pathIter
         IN  IF pathIter = end THEN Returned(curType)
             ELSE LET isColumn == array[pathIter + 1].type = "MATRIX_COLUMN"
                      columnType == IF isColumn
                                    THEN getDataTypeFloatVec(getDataTypeMatrixNumRows(curType.type))
                                    ELSE curType.type
                      afterColumn == IF isColumn THEN pathIter + 1 ELSE pathIter
                      isComponent == afterColumn # end
                                     /\ array[afterColumn + 1].type = "VECTOR_COMPONENT"
                      basicType == IF isComponent
                                   THEN getDataTypeScalarTypeAsDataType(columnType)
                                   ELSE columnType
                      afterComponent == IF isComponent THEN afterColumn + 1 ELSE afterColumn
                  IN  IF afterComponent # end THEN Thrown("Error")
                      ELSE Returned(newTypeBasic(basicType, curType.precision))
         : w \in {walkMembersAndElements(type, array, start, end)}} : TRUE
    : valid \in {isValidTypePath(type, array, start, end)}} : TRUE

highp(basicType) == newTypeBasic(basicType, "PRECISION_HIGHP")

(***************************************************************************)
(* VarTokenizer.  A string is a sequence of one-character strings; reading *)
(* past its end gives undefined, which is neither a digit nor an           *)
(* identifier character.                                                   *)
(***************************************************************************)
Digits == <<"0", "1", "2", "3", "4", "5", "6", "7", "8", "9">>

Letters ==
    {"a", "b", "c", "d", "e", "f", "g", "h", "i", "j", "k", "l", "m",
     "n", "o", "p", "q", "r", "s", "t", "u", "v", "w", "x", "y", "z",
     "A", "B", "C", "D", "E", "F", "G", "H", "I", "J", "K", "L", "M",
     "N", "O", "P", "Q", "R", "S", "T", "U", "V", "W", "X", "Y", "Z"}

isNum(c) == \E d \in 1..Len(Digits) : Digits[d] = c

isIdentifierChar(c) == c \in Letters \/ isNum(c) \/ c = "_"

charAt(str, i) == IF i < Len(str) THEN str[i + 1] ELSE "undefined"

RECURSIVE numRun(_, _)
numRun(str, from) == IF isNum(charAt(str, from)) THEN 1 + numRun(str, from + 1) ELSE 0

RECURSIVE identifierRun(_, _)
identifierRun(str, from) ==
    IF isIdentifierChar(charAt(str, from)) THEN 1 + identifierRun(str, from + 1) ELSE 0

advance(t) ==
    IF t.m_token = "END" THEN Thrown("No more tokens.")
    ELSE LET start == t.m_tokenStart + t.m_tokenLen
             c == charAt(t.m_str, start)
             at(token, len) ==
                 Returned([m_str |-> t.m_str, m_token |-> token,
                           m_tokenStart |-> start, m_tokenLen |-> len])
         IN  IF start >= Len(t.m_str) THEN at("END", 1)
             ELSE IF c = "[" THEN at("LEFT_BRACKET", 1)
             ELSE IF c = "]" THEN at("RIGHT_BRACKET", 1)
             ELSE IF c = "." THEN at("PERIOD", 1)
             ELSE IF isNum(c) THEN at("NUMBER", 1 + numRun(t.m_str, start + 1))
             ELSE IF isIdentifierChar(c)
             THEN at("IDENTIFIER", 1 + identifierRun(t.m_str, start + 1))
             ELSE Thrown("Unexpected character")

VarTokenizer(str) ==
    advance([m_str |-> str, m_token |-> "LAST", m_tokenStart |-> 0, m_tokenLen |-> 0])

getIdentifier(t) == SubSeq(t.m_str, t.m_tokenStart + 1, t.m_tokenStart + t.m_tokenLen)

RECURSIVE parseInt(_)
parseInt(chars) ==
    IF chars = <<>> THEN 0
    ELSE parseInt(SubSeq(chars, 1, Len(chars) - 1)) * 10
         + ((CHOOSE d \in 1..Len(Digits) : Digits[d] = chars[Len(chars)]) - 1)

getNumber(t) == parseInt(getIdentifier(t))

parseVariableName(nameWithPath) ==
    CHOOSE result \in {
    IF tokenizer.threw THEN tokenizer
    ELSE IF tokenizer.val.m_token # "IDENTIFIER" THEN Thrown("Not an identifier.")
    ELSE Returned(getIdentifier(tokenizer.val))
    : tokenizer \in {VarTokenizer(nameWithPath)}} : TRUE

(***************************************************************************)
(* parseTypePath(nameWithPath, type)                                       *)
(***************************************************************************)
\* The member search loop: the first ndx whose name is memberName, or getSize().
RECURSIVE findMember(_, _, _)
findMember(members, memberName, ndx) ==
    IF ndx < Len(members) /\ memberName # members[ndx + 1].m_name
    THEN findMember(members, memberName, ndx + 1)
    ELSE ndx

\* What a '[ndx]' pushes on curType, or the error it throws.
subscript(curType, ndx) ==
    IF isArrayType(curType)
    THEN IF ~inBounds(ndx, 0, curType.size) THEN Thrown("Error")
         ELSE Returned(VarTypeComponent("ARRAY_ELEMENT", ndx))
    ELSE IF isBasicType(curType) /\ isDataTypeMatrix(curType.type)
    THEN IF ~inBounds(ndx, 0, getDataTypeMatrixNumColumns(curType.type)) THEN Thrown("Error")
         ELSE Returned(VarTypeComponent("MATRIX_COLUMN", ndx))
    ELSE IF isBasicType(curType) /\ isDataTypeVector(curType.type)
    THEN IF ~inBounds(ndx, 0, getDataTypeScalarSize(curType.type)) THEN Thrown("Error")
         ELSE Returned(VarTypeComponent("VECTOR_COMPONENT", ndx))
    ELSE Thrown("Invalid subscript")

RECURSIVE parseLoop(_, _, _)
parseLoop(tokenizer, path, type) ==
    IF tokenizer.m_token = "END" THEN Returned(path)
    ELSE CHOOSE result \in {
         IF cur.threw THEN cur
         ELSE IF tokenizer.m_token = "PERIOD"
         THEN CHOOSE member \in {
              IF name.threw THEN name
              ELSE IF name.val.m_token # "IDENTIFIER" THEN Thrown("Error")
              ELSE IF ~isStructType(cur.val) THEN Thrown("Invalid field selector")
              ELSE CHOOSE found \in {
                   IF ndx >= Len(cur.val.m_members) THEN Thrown("Member not found in type")
                   ELSE IF after.threw THEN after
                   ELSE parseLoop(after.val,
                                  Append(path, VarTypeComponent("STRUCT_MEMBER", ndx)),
                                  type)
                   : ndx \in {findMember(cur.val.m_members, getIdentifier(name.val), 0)},
                     after \in {advance(name.val)}} : TRUE
              : name \in {advance(tokenizer)}} : TRUE
         ELSE IF tokenizer.m_token = "LEFT_BRACKET"
         THEN CHOOSE element \in {
              IF number.threw THEN number
              ELSE IF number.val.m_token # "NUMBER" THEN Thrown("Error")
              ELSE CHOOSE subscripted \in {
                   IF pushed.threw THEN pushed
                   ELSE IF bracket.threw THEN bracket
                   ELSE IF bracket.val.m_token # "RIGHT_BRACKET"
                   THEN Thrown("Expected token RIGHT_BRACKET")
                   ELSE CHOOSE next_ \in {
                        IF after.threw THEN after
                        ELSE parseLoop(after.val, Append(path, pushed.val), type)
                        : after \in {advance(bracket.val)}} : TRUE
                   : pushed \in {subscript(cur.val, getNumber(number.val))},
                     bracket \in {advance(number.val)}} : TRUE
              : number \in {advance(tokenizer)}} : TRUE
         ELSE Thrown("Unexpected token")
         : cur \in {getVarType(type, path, 0, Len(path))}} : TRUE

parseTypePath(nameWithPath, type) ==
    CHOOSE result \in {
    IF tokenizer.threw THEN tokenizer
    ELSE IF tokenizer.val.m_token = "IDENTIFIER"
    THEN CHOOSE named \in {
         IF after.threw THEN after ELSE parseLoop(after.val, <<>>, type)
         : after \in {advance(tokenizer.val)}} : TRUE
    ELSE parseLoop(tokenizer.val, <<>>, type)
    : tokenizer \in {VarTokenizer(nameWithPath)}} : TRUE

\* Number to decimal text, as string concatenation renders it.
RECURSIVE numberText(_)
numberText(n) ==
    IF n < 10 THEN <<Digits[n + 1]>>
    ELSE numberText(n \div 10) \o <<Digits[(n % 10) + 1]>>

(***************************************************************************)
(* SubTypeIterator with the isExpanded of VectorTypeIterator.  The         *)
(* iterator is m_type (ended when it is null) and m_path; a call that      *)
(* throws leaves the error in the record.                                  *)
(***************************************************************************)
isExpanded(type) == isBasicType(type) /\ isDataTypeScalarOrVector(type.type)

RECURSIVE findLoop(_, _)
findLoop(type, path) ==
    CHOOSE result \in {
    LET push(kind) == findLoop(type, Append(path, VarTypeComponent(kind, 0)))
    IN  IF cur.threw THEN cur
        ELSE IF isExpanded(cur.val) THEN Returned(path)
        ELSE IF isBasicType(cur.val)
        THEN IF isDataTypeMatrix(cur.val.type) THEN push("MATRIX_COLUMN")
             ELSE IF isDataTypeVector(cur.val.type) THEN push("VECTOR_COMPONENT")
             ELSE Thrown("Cant expand scalars - isExpanded() is buggy.")
        ELSE IF isArrayType(cur.val) THEN push("ARRAY_ELEMENT")
        ELSE IF isStructType(cur.val) THEN push("STRUCT_MEMBER")
        ELSE Thrown("Error")
    : cur \in {getVarType(type, path, 0, Len(path))}} : TRUE

findNext(type, path) ==
    IF Len(path) > 0
    THEN findLoop(type, [path EXCEPT ![Len(path)].index = @ + 1])
    ELSE findLoop(type, path)

RECURSIVE removeTraversed(_, _)
removeTraversed(type, path) ==
    IF Len(path) = 0 THEN Returned(path)
    ELSE CHOOSE result \in {
         LET curComp == path[Len(path)]
             pop == removeTraversed(type, SubSeq(path, 1, Len(path) - 1))
         IN  IF parent.threw THEN parent
             ELSE IF curComp.type = "MATRIX_COLUMN"
             THEN IF ~isBasicType(parent.val) THEN Thrown("Assert failed")
                  ELSE IF ~isDataTypeMatrix(parent.val.type) THEN Thrown("Isn't a matrix.")
                  ELSE IF curComp.index + 1 < getDataTypeMatrixNumColumns(parent.val.type)
                  THEN Returned(path) ELSE pop
             ELSE IF curComp.type = "VECTOR_COMPONENT"
             THEN IF ~isBasicType(parent.val) THEN Thrown("Assert failed")
                  ELSE IF ~isDataTypeVector(parent.val.type) THEN Thrown("Isn't a vector.")
                  ELSE IF curComp.index + 1 < getDataTypeScalarSize(parent.val.type)
                  THEN Returned(path) ELSE pop
             ELSE IF curComp.type = "ARRAY_ELEMENT"
             THEN IF ~isArrayType(parent.val) THEN Thrown("Isn't an array.")
                  ELSE IF curComp.index + 1 < parent.val.size THEN Returned(path) ELSE pop
             ELSE IF curComp.type = "STRUCT_MEMBER"
             THEN IF ~isStructType(parent.val) THEN Thrown("Isn't a struct.")
                  ELSE IF curComp.index + 1 < Len(parent.val.m_members)
                  THEN Returned(path) ELSE pop
             ELSE pop
         : parent \in {getVarType(type, path, 0, Len(path) - 1)}} : TRUE

\* The iterator after a step that left path or threw.
iteratorAt(type, step) ==
    IF step.threw
    THEN [m_type |-> type, ended |-> FALSE, m_path |-> <<>>, threw |-> TRUE, error |-> step.val]
    ELSE [m_type |-> type, ended |-> FALSE, m_path |-> step.val, threw |-> FALSE, error |-> ""]

iteratorEnded(it) == [it EXCEPT !.ended = TRUE]

VectorTypeIterator(type) == iteratorAt(type, findNext(type, <<>>))

SubTypeIterator_next(it) ==
    IF Len(it.m_path) > 0
    THEN CHOOSE result \in {
         IF removed.threw THEN iteratorAt(it.m_type, removed)
         ELSE IF Len(removed.val) > 0
         THEN iteratorAt(it.m_type, findNext(it.m_type, removed.val))
         ELSE iteratorEnded([it EXCEPT !.m_path = removed.val])
         : removed \in {removeTraversed(it.m_type, it.m_path)}} : TRUE
    ELSE CHOOSE result \in {
         IF cur.threw THEN iteratorAt(it.m_type, cur)
         ELSE IF ~isExpanded(cur.val)
         THEN iteratorAt(it.m_type, Thrown("First type was already expanded."))
         ELSE iteratorEnded(it)
         : cur \in {getVarType(it.m_type, it.m_path, 0, Len(it.m_path))}} : TRUE

(***************************************************************************)
(* computeInputLayout and computeTransformFeedbackOutputs, as init calls   *)
(* them on the ProgramSpec, and the buffer strides init derives.           *)
(***************************************************************************)
gl_Position == <<"g", "l", "_", "P", "o", "s", "i", "t", "i", "o", "n">>

gl_PointSize == <<"g", "l", "_", "P", "o", "i", "n", "t", "S", "i", "z", "e">>

v_varA == <<"v", "_", "v", "a", "r", "A">>

v_varB == <<"v", "_", "v", "a", "r", "B">>

Varying(name, type) == [name |-> name, type |-> type]

newAttribute(name, type, offset) == [name |-> name, type |-> type, offset |-> offset]

newOutput(bufferNdx, offset, name, type, inputs) ==
    [bufferNdx |-> bufferNdx, offset |-> offset, name |-> name, type |-> type,
     inputs |-> inputs]

Undefined == [undefined |-> TRUE]

RECURSIVE findAttributeNameEquals(_, _)
findAttributeNameEquals(array, name) ==
    IF array = <<>> THEN Undefined
    ELSE IF Head(array).name = name THEN Head(array)
    ELSE findAttributeNameEquals(Tail(array), name)

isPointSizeUsed(transformFeedbackVaryings) ==
    \E i \in 1..Len(transformFeedbackVaryings) : transformFeedbackVaryings[i] = gl_PointSize

RECURSIVE attributeSuffix(_)
attributeSuffix(path) ==
    IF path = <<>> THEN Returned(<<>>)
    ELSE LET prefix == CASE Head(path).type = "STRUCT_MEMBER"    -> <<"_", "m">>
                         [] Head(path).type = "ARRAY_ELEMENT"    -> <<"_", "e">>
                         [] Head(path).type = "MATRIX_COLUMN"    -> <<"_", "c">>
                         [] Head(path).type = "VECTOR_COMPONENT" -> <<"_", "s">>
                         [] OTHER -> <<>>
             rest == attributeSuffix(Tail(path))
         IN  IF prefix = <<>> THEN Thrown("invalid type in the component path.")
             ELSE IF rest.threw THEN rest
             ELSE Returned(prefix \o numberText(Head(path).index) \o rest.val)

getAttributeName_keepPrefix(varyingName, path) ==
    CHOOSE result \in {
        IF suffix.threw THEN suffix ELSE Returned(<<"a", "_">> \o varyingName \o suffix.val)
        : suffix \in {attributeSuffix(path)}} : TRUE

getAttributeName(varyingName, path) ==
    CHOOSE result \in {
        IF suffix.threw THEN suffix ELSE Returned(<<"a", "_">> \o stem \o suffix.val)
        : suffix \in {attributeSuffix(path)},
          stem \in {IF Len(varyingName) >= 2 /\ SubSeq(varyingName, 1, 2) = <<"v", "_">>
                    THEN SubSeq(varyingName, 3, Len(varyingName))
                    ELSE varyingName}} : TRUE

\* for (var it = new VectorTypeIterator(type); !it.end(); it.next()): the
\* paths the body sees, or the error the constructor or next() throws.
RECURSIVE visitAll(_, _)
visitAll(it, visited) ==
    IF it.threw THEN Thrown(it.error)
    ELSE IF it.ended THEN Returned(visited)
    ELSE visitAll(SubTypeIterator_next(it), Append(visited, it.m_path))

\* The loop body of computeInputLayout over the paths of one varying.
RECURSIVE layoutPaths(_, _, _)
layoutPaths(varying, paths, layout) ==
    IF paths = <<>> THEN Returned(layout)
    ELSE CHOOSE result \in {
             IF type.threw THEN type
             ELSE IF name.threw THEN name
             ELSE layoutPaths(varying, Tail(paths),
                    [attributes  |-> Append(layout.attributes,
                                            newAttribute(name.val, type.val, layout.inputStride)),
                     inputStride |-> layout.inputStride
                                     + getDataTypeScalarSize(type.val.type) * 4])
             : type \in {getVarType(varying.type, Head(paths), 0, Len(Head(paths)))},
               name \in {getAttributeName(varying.name, Head(paths))}} : TRUE

RECURSIVE layoutVaryings(_, _)
layoutVaryings(varyings, layout) ==
    IF varyings = <<>> THEN Returned(layout)
    ELSE CHOOSE result \in {
         IF paths.threw THEN paths
         ELSE CHOOSE laidOut \in {
              IF done.threw THEN done ELSE layoutVaryings(Tail(varyings), done.val)
              : done \in {layoutPaths(Head(varyings), paths.val, layout)}} : TRUE
         : paths \in {visitAll(VectorTypeIterator(Head(varyings).type), <<>>)}} : TRUE

computeInputLayout(varyings, usePointSize) ==
    LET position == [attributes  |-> <<newAttribute(<<"a", "_">> \o <<"p", "o", "s", "i", "t", "i", "o", "n">>,
                                                    highp("FLOAT_VEC4"), 0)>>,
                     inputStride |-> 4 * 4]
        pointSize == IF usePointSize
                     THEN [attributes  |-> Append(position.attributes,
                                                  newAttribute(<<"a", "_">> \o <<"p", "o", "i", "n", "t", "S", "i", "z", "e">>,
                                                               highp("FLOAT"),
                                                               position.inputStride)),
                           inputStride |-> position.inputStride + 1 * 4]
                     ELSE position
    IN  layoutVaryings(varyings, pointSize)

\* The inputs of one output: the attribute of every vector-level path of its type.
outputInputs(attributes, varName, varPath, paths) ==
    [k \in 1..Len(paths) |->
        CHOOSE input \in {
            IF attribName.threw THEN Undefined
            ELSE findAttributeNameEquals(attributes, attribName.val)
            : attribName \in {getAttributeName(varName, varPath \o paths[k])}} : TRUE]

RECURSIVE computeTransformFeedbackOutputs_noAccumulate(_, _, _, _, _, _, _)
computeTransformFeedbackOutputs_noAccumulate(outputs, attributes, varyings, transformFeedbackVaryings, bufferMode, varNdx, accumulatedSize) ==
    IF varNdx = Len(transformFeedbackVaryings) THEN Returned(outputs)
    ELSE LET name == transformFeedbackVaryings[varNdx + 1]
             bufNdx == IF bufferMode = "SEPARATE_ATTRIBS" THEN varNdx ELSE 0
             offset == IF bufferMode = "SEPARATE_ATTRIBS" THEN 0 ELSE accumulatedSize
             push(type, inputs) ==
                 computeTransformFeedbackOutputs_noAccumulate(
                     Append(outputs, newOutput(bufNdx, offset, name, type, inputs)),
                     attributes, varyings, transformFeedbackVaryings, bufferMode,
                     varNdx + 1, accumulatedSize)
         IN  IF name = gl_Position
             THEN CHOOSE result \in {push(posIn.type, <<posIn>>)
                  : posIn \in {findAttributeNameEquals(attributes, <<"a", "_">> \o <<"p", "o", "s", "i", "t", "i", "o", "n">>)}} : TRUE
             ELSE IF name = gl_PointSize
             THEN CHOOSE result \in {push(sizeIn.type, <<sizeIn>>)
                  : sizeIn \in {findAttributeNameEquals(attributes, <<"a", "_">> \o <<"p", "o", "i", "n", "t", "S", "i", "z", "e">>)}} : TRUE
             ELSE CHOOSE result \in {
                  IF varName.threw THEN varName
                  ELSE CHOOSE found \in {
                       CHOOSE parsed \in {
                           IF varPath.threw THEN varPath
                           ELSE CHOOSE resolved \in {
                                IF type.threw THEN type
                                ELSE CHOOSE visited \in {
                                     IF paths.threw THEN paths
                                     ELSE push(type.val,
                                               outputInputs(attributes, varName.val,
                                                            varPath.val, paths.val))
                                     : paths \in {visitAll(VectorTypeIterator(type.val), <<>>)}} : TRUE
                                : type \in {getVarType(varying.type, varPath.val, 0,
                                                       Len(varPath.val))}} : TRUE
                           : varPath \in {parseTypePath(name, varying.type)}} : TRUE
                       : varying \in {findAttributeNameEquals(varyings, varName.val)}} : TRUE
                  : varName \in {parseVariableName(name)}} : TRUE

RECURSIVE computeTransformFeedbackOutputs(_, _, _, _, _, _, _)
computeTransformFeedbackOutputs(outputs, attributes, varyings, transformFeedbackVaryings, bufferMode, varNdx, accumulatedSize) ==
    IF varNdx = Len(transformFeedbackVaryings) THEN Returned(outputs)
    ELSE LET name == transformFeedbackVaryings[varNdx + 1]
             bufNdx == IF bufferMode = "SEPARATE_ATTRIBS" THEN varNdx ELSE 0
             offset == IF bufferMode = "SEPARATE_ATTRIBS" THEN 0 ELSE accumulatedSize
             push(type, inputs) ==
                 computeTransformFeedbackOutputs(
                     Append(outputs, newOutput(bufNdx, offset, name, type, inputs)),
                     attributes, varyings, transformFeedbackVaryings, bufferMode,
                     varNdx + 1, accumulatedSize + getScalarSize(type) * 4)
         IN  IF name = gl_Position
             THEN CHOOSE result \in {push(posIn.type, <<posIn>>)
                  : posIn \in {findAttributeNameEquals(attributes, <<"a", "_">> \o <<"p", "o", "s", "i", "t", "i", "o", "n">>)}} : TRUE
             ELSE IF name = gl_PointSize
             THEN CHOOSE result \in {push(sizeIn.type, <<sizeIn>>)
                  : sizeIn \in {findAttributeNameEquals(attributes, <<"a", "_">> \o <<"p", "o", "i", "n", "t", "S", "i", "z", "e">>)}} : TRUE
             ELSE CHOOSE result \in {
                  IF varName.threw THEN varName
                  ELSE CHOOSE found \in {
                       CHOOSE parsed \in {
                           IF varPath.threw THEN varPath
                           ELSE CHOOSE resolved \in {
                                IF type.threw THEN type
                                ELSE CHOOSE visited \in {
                                     IF paths.threw THEN paths
                                     ELSE push(type.val,
                                               outputInputs(attributes, varName.val,
                                                            varPath.val, paths.val))
                                     : paths \in {visitAll(VectorTypeIterator(type.val), <<>>)}} : TRUE
                                : type \in {getVarType(varying.type, varPath.val, 0,
                                                       Len(varPath.val))}} : TRUE
                           : varPath \in {parseTypePath(name, varying.type)}} : TRUE
                       : varying \in {findAttributeNameEquals(varyings, varName.val)}} : TRUE
                  : varName \in {parseVariableName(name)}} : TRUE

RECURSIVE totalSize(_, _)
totalSize(outputs, i) ==
    IF i = 0 THEN 0 ELSE totalSize(outputs, i - 1) + getScalarSize(outputs[i].type) * 4

\* init, lines 1024-1038: the outputs must not be empty; one stride per
\* output in separate mode, one stride for all of them otherwise.
bufferStrides(outputs, bufferMode) ==
    IF Len(outputs) = 0 THEN Thrown("transformFeedbackOutputs cannot be empty.")
    ELSE IF bufferMode = "SEPARATE_ATTRIBS"
    THEN Returned([i \in 1..Len(outputs) |-> getScalarSize(outputs[i].type) * 4])
    ELSE Returned(<<totalSize(outputs, Len(outputs))>>)

(***************************************************************************)
(* TransformFeedbackCase: init, deinit, iterate                            *)
(***************************************************************************)
\* The object the constructor leaves.
NewCase(prim, progSpec) ==
    [m_primitiveType |-> prim, m_progSpec |-> progSpec,
     m_inputStride |-> 0, m_attributes |-> <<>>, m_transformFeedbackOutputs |-> <<>>,
     m_bufferStrides |-> <<>>,
     m_program |-> Null, m_transformFeedback |-> Null, m_outputBuffers |-> <<>>,
     m_iterNdx |-> 0]

\* What the context does during one init(): the shaders compile or not, the
\* program links or not (and then the limits were exceeded, or an array was
\* captured, or neither), gl.getError() at the end returns an error or not.
InitRuns ==
    {"ok", "compile failed", "link failed", "link failed, limits exceeded",
     "link failed, array captured", "gl error"}

GlErrorInInit == "init: gl.GetError() returned an error"

\* new ShaderProgram(gl, programSources): link() runs when the shaders compiled.
ShaderProgram(run) ==
    [shadersOK |-> run # "compile failed",
     linkOk |-> run \in {"ok", "gl error"}]

\* ShaderProgram.isOk
ShaderProgram_isOk(program) == program.shadersOK

isProgramSupported(run) == run # "link failed, limits exceeded"

RECURSIVE hasArraysInTFVaryingsFrom(_, _)
hasArraysInTFVaryingsFrom(progSpec, i) ==
    IF i > Len(progSpec.m_transformFeedbackVaryings) THEN Returned(FALSE)
    ELSE CHOOSE result \in {
         IF varName.threw THEN varName
         ELSE IF findAttributeNameEquals(progSpec.m_varyings, varName.val) # Undefined
         THEN Returned(TRUE)
         ELSE hasArraysInTFVaryingsFrom(progSpec, i + 1)
         : varName \in {parseVariableName(progSpec.m_transformFeedbackVaryings[i])}} : TRUE

hasArraysInTFVaryings(progSpec) == hasArraysInTFVaryingsFrom(progSpec, 1)

\* init, lines 1011-1050: the layout, the output buffers, the transform
\* feedback object.  m_attributes is [] after the constructor and null after
\* deinit(); push on null throws.
initLayout(obj, run) ==
    IF obj.m_attributes = Null
    THEN [threw |-> TRUE, val |-> "TypeError", obj |-> obj, created |-> {}]
    ELSE CHOOSE result \in {
         IF layout.threw
         THEN [threw |-> TRUE, val |-> layout.val, obj |-> obj, created |-> {}]
         ELSE CHOOSE laidOut \in {
              CHOOSE built \in {
                  IF outputs.threw
                  THEN [threw |-> TRUE, val |-> outputs.val, obj |-> withInputs, created |-> {}]
                  ELSE CHOOSE strided \in {
                       IF strides.threw
                       THEN [threw |-> TRUE, val |-> strides.val, created |-> {},
                             obj |-> [withInputs EXCEPT !.m_transformFeedbackOutputs = outputs.val]]
                       ELSE CHOOSE done \in {
                            IF run = "gl error"
                            THEN [threw |-> TRUE, val |-> GlErrorInInit, obj |-> ready,
                                  created |-> {"output buffer", "transform feedback"}]
                            ELSE [threw |-> FALSE, val |-> "undefined", obj |-> ready,
                                  created |-> {"output buffer", "transform feedback"}]
                            : ready \in {[withInputs EXCEPT
                                  !.m_transformFeedbackOutputs = outputs.val,
                                  !.m_bufferStrides = strides.val,
                                  !.m_outputBuffers = [i \in 1..Len(strides.val) |-> "buffer"],
                                  !.m_transformFeedback = "transformFeedback"]}} : TRUE
                       : strides \in {bufferStrides(outputs.val, obj.m_progSpec.m_bufferMode)}} : TRUE
                  : outputs \in {computeTransformFeedbackOutputs(
                                     obj.m_transformFeedbackOutputs, layout.val.attributes,
                                     obj.m_progSpec.m_varyings,
                                     obj.m_progSpec.m_transformFeedbackVaryings,
                                     obj.m_progSpec.m_bufferMode, 0, 0)}} : TRUE
              : withInputs \in {[obj EXCEPT !.m_attributes = layout.val.attributes,
                                            !.m_inputStride = layout.val.inputStride]}} : TRUE
         : layout \in {computeInputLayout(obj.m_progSpec.m_varyings,
                           isPointSizeUsed(obj.m_progSpec.m_transformFeedbackVaryings))}} : TRUE

init(obj, run) ==
    IF obj.m_program # Null
    THEN [threw |-> TRUE, val |-> "this.m_program isnt null.", obj |-> obj, created |-> {}]
    ELSE LET program == ShaderProgram(run)
             made == [obj EXCEPT !.m_program =
                         IF program.shadersOK /\ program.linkOk THEN "program"
                         ELSE "program not linked"]
             linkFail == program.shadersOK /\ ~program.linkOk
             failed(msg) == [threw |-> TRUE, obj |-> made, val |-> msg, created |-> {}]
         IN  IF ~ShaderProgram_isOk(program)
             THEN IF linkFail
                  THEN IF ~isProgramSupported(run)
                       THEN failed("Not Supported. Implementation limits exceeded.")
                       ELSE CHOOSE result \in {
                            IF arrays.threw THEN failed(arrays.val)
                            ELSE IF arrays.val
                            THEN failed("Capturing arrays is not supported (undefined in specification)")
                            ELSE failed("Link failed")
                            : arrays \in {hasArraysInTFVaryings(obj.m_progSpec)}} : TRUE
                  ELSE failed("Compile failed")
             ELSE initLayout(made, run)

\* The fields deinit() leaves.  m_outputBuffers keeps the deleted handles.
deinit(obj) ==
    [obj EXCEPT !.m_transformFeedback = Null, !.m_program = Null,
                !.m_attributes = Null, !.m_transformFeedbackOutputs = Null,
                !.m_bufferStrides = Null, !.m_inputStride = 0]

\* The kinds of objects deinit() deletes: gl.deleteBuffer of every output
\* buffer, gl.deleteTransformFeedback.
deinitDeletes(obj) ==
    (IF Len(obj.m_outputBuffers) > 0 THEN {"output buffer"} ELSE {})
    \cup {"transform feedback"}

\* The objects one runTest creates and does not delete: primitiveQuery
\* (line 1137, deleted only by the catch of the draw loop) and attribBuffer
\* (line 1176, never deleted).  A program that did not link makes the
\* GLU_EXPECT_NO_ERROR of line 1223 throw, after both were created.
runTestLeaves(linked, gpu) ==
    IF gpu.throwAt = "buffer setup" THEN {"query"}
    ELSE IF linked /\ gpu.throwAt = "draw loop" THEN {"attribute buffer"}
    ELSE {"query", "attribute buffer"}

\* this.m_iterNdx += 1
nextIteration_resetStride(obj) == [obj EXCEPT !.m_iterNdx = @ + 1, !.m_inputStride = 0]

nextIteration(obj) == [obj EXCEPT !.m_iterNdx = @ + 1]

\* The value iterate() returns for a run's verdict, m_iterNdx already advanced.
iterateResult_noStopOnFail(isOk, iterNdx, numIterations) ==
    IF iterNdx < numIterations THEN "CONTINUE" ELSE "STOP"

iterateResult(isOk, iterNdx, numIterations) ==
    IF isOk /\ iterNdx < numIterations THEN "CONTINUE" ELSE "STOP"

iterate(obj, gpu) ==
    LET numIterations == Len(s_iterate_iterations)
    IN  IF obj.m_iterNdx >= numIterations
        THEN \* s.iterations[m_iterNdx] is undefined: currentTestCase.length throws
             [threw |-> TRUE, val |-> "TypeError", obj |-> obj,
              script |-> "undefined", isOk |-> FALSE, leaves |-> {}]
        ELSE LET currentIteration == s_iterate_iterations[obj.m_iterNdx + 1]
                 currentTestCase  == s_iterate_testCases[currentIteration]
                 \* gl.useProgram of a program that did not link raises an
                 \* error, which the next GLU_EXPECT_NO_ERROR throws
                 isOk == IF obj.m_program = "program not linked"
                         THEN Thrown("gl.GetError() returned an error")
                         ELSE runTest(obj.m_primitiveType, currentTestCase, gpu)
                 leaves == runTestLeaves(obj.m_program # "program not linked", gpu)
             IN  IF isOk.threw
                 THEN [threw |-> TRUE, val |-> isOk.val, obj |-> obj,
                       script |-> currentIteration, isOk |-> FALSE, leaves |-> leaves]
                 ELSE [threw |-> FALSE,
                       val |-> iterateResult(isOk.val, obj.m_iterNdx + 1, numIterations),
                       obj |-> nextIteration(obj),
                       script |-> currentIteration, isOk |-> isOk.val, leaves |-> leaves]

(***************************************************************************)
(* The test tree.  A node is a DeqpTest; the nodes of Cases are            *)
(* TransformFeedbackCase objects, the others plain DeqpTest groups.        *)
(***************************************************************************)
Nodes == {"root", "g", "a", "b", "c"}

Cases == {"a", "b", "c"}

CaseTopology == [a |-> "POINTS", b |-> "TRIANGLES", c |-> "LINE_STRIP"]

\* The ProgramSpec the constructor of every case builds: a is a
\* BasicTypeCase of vec2, b a PositionCase, c a PointSizeCase.
ProgramSpec(varyings, transformFeedbackVaryings, bufferMode) ==
    [m_varyings |-> varyings, m_transformFeedbackVaryings |-> transformFeedbackVaryings,
     m_bufferMode |-> bufferMode]

CaseProgSpec ==
    [a |-> ProgramSpec(<<Varying(v_varA, highp("FLOAT_VEC2")),
                         Varying(v_varB, highp("FLOAT_VEC2"))>>,
                       <<v_varA, v_varB>>, "SEPARATE_ATTRIBS"),
     b |-> ProgramSpec(<<>>, <<gl_Position>>, "INTERLEAVED_ATTRIBS"),
     c |-> ProgramSpec(<<>>, <<gl_PointSize>>, "INTERLEAVED_ATTRIBS")]

NewCases == [c \in Cases |-> NewCase(CaseTopology[c], CaseProgSpec[c])]

NoChildren == [n \in Nodes |-> <<>>]

\* The trees the runner is given: DeqpTest.spec of every node.
TreeShapes ==
    { [NoChildren EXCEPT !["root"] = <<"a", "b">>],
      [NoChildren EXCEPT !["root"] = <<"g", "c">>, !["g"] = <<"a", "b">>],
      [NoChildren EXCEPT !["root"] = <<"g", "a">>] }

\* DeqpTest.parentTest, as addChild and newTest set it.
HasChild(p, n) == \E i \in 1..Len(spec[p]) : spec[p][i] = n

parentTest(n) == IF \E p \in Nodes : HasChild(p, n)
                 THEN CHOOSE p \in Nodes : HasChild(p, n)
                 ELSE Null

\* DeqpTest.fullName: the names from the root down, which the code joins by '.'.
RECURSIVE fullName(_)
fullName(n) ==
    IF parentTest(n) # Null THEN Append(fullName(parentTest(n)), n) ELSE <<n>>

\* fullName().match(pattern), for a pattern that is the name of one node.
Matches(n, pattern) ==
    \E i \in 1..Len(fullName(n)) : fullName(n)[i] = pattern

\* DeqpTest.next() without a pattern: the next leaf and the cursors it leaves.
RECURSIVE nextLeaf(_, _)
RECURSIVE nextLoop(_, _)
nextLoop(n, cur) ==
    IF cur[n] < Len(spec[n])
    THEN LET r == nextLeaf(spec[n][cur[n] + 1], cur)
         IN  IF r.test # Null THEN r
             ELSE nextLoop(n, [r.cur EXCEPT ![n] = @ + 1])
    ELSE [test |-> Null, cur |-> cur]

nextLeaf_noMark(n, cur) ==
    IF Len(spec[n]) > 0 THEN nextLoop(n, cur)
    ELSE [test |-> n, cur |-> cur]

nextLeaf(n, cur) ==
    IF Len(spec[n]) > 0 THEN nextLoop(n, cur)
    ELSE IF cur[n] = 0 THEN [test |-> n, cur |-> [cur EXCEPT ![n] = @ + 1]]
    ELSE [test |-> Null, cur |-> cur]

\* DeqpTest.find
RECURSIVE find(_, _, _)
find(n, pattern, cur) ==
    LET r == nextLeaf(n, cur)
    IN  IF r.test = Null THEN r
        ELSE IF Matches(r.test, pattern) THEN r
        ELSE find(n, pattern, r.cur)

\* DeqpTest.next(pattern)
next(n, pattern, cur) ==
    IF pattern # Null THEN find(n, pattern, cur) ELSE nextLeaf(n, cur)

\* DeqpTest.reset
RECURSIVE reset(_, _)
RECURSIVE resetChildren(_, _, _)
reset(n, cur) == resetChildren(n, 0, [cur EXCEPT ![n] = 0])

resetChildren(n, i, cur) ==
    IF i < Len(spec[n]) THEN resetChildren(n, i + 1, reset(spec[n][i + 1], cur))
    ELSE cur

(***************************************************************************)
(* runTestCases: one callback of the runner                                *)
(***************************************************************************)
\* "Should we proceed with the next test?"
ShouldProceed_always(result) == TRUE

ShouldProceed(result) == result = "STOP"

\* "If the test is finished (signalled by lastResult == STOP), clean up."
ShouldCleanUp(result) == result = "STOP"

\* What the calls of one callback leave: the case object and the history.
\* test is a TransformFeedbackCase here.
RunCase(test, proceed, initRun, gpu) ==
    \E initRes \in {init(cases[test], initRun)} :
    \E initCalled \in {proceed} :
    \E obj1 \in {IF initCalled THEN initRes.obj ELSE cases[test]} :
    \* try { init(); iterate() } catch (err) { log }
    \E iterCalled \in {initCalled => ~initRes.threw} :
    \E iterRes \in {iterate(obj1, gpu)} :
    \E persistent \in {iterCalled /\ faulty = [test |-> test, script |-> iterRes.script]} :
    \E obj2 \in {IF iterCalled THEN iterRes.obj ELSE obj1} :
    \E result \in {IF iterCalled /\ ~iterRes.threw THEN iterRes.val ELSE lastResult} :
    \E glRaised \in {(IF initCalled /\ initRes.threw /\ initRes.val = GlErrorInInit
                      THEN 1 ELSE 0)
                     + (IF iterCalled /\ iterRes.threw /\ gpu.glError /\ ~persistent
                        THEN 1 ELSE 0)} :
    \* clean up
    \E deinitCalled \in {ShouldCleanUp(result)} :
    \E obj3 \in {IF deinitCalled THEN deinit(obj2) ELSE obj2} :
        /\ persistent => gpu.glError
        /\ glErrors + glRaised <= MaxGlErrors
        /\ glErrors' = glErrors + glRaised
        /\ lastResult' = result
        /\ cases' = [cases EXCEPT ![test] = obj3]
        /\ initCalls' = IF initCalled THEN [initCalls EXCEPT ![test] = @ + 1]
                        ELSE initCalls
        /\ deinitCalls' = IF deinitCalled THEN [deinitCalls EXCEPT ![test] = @ + 1]
                          ELSE deinitCalls
        /\ initWhileLive' = (initWhileLive \/ (initCalled /\ live # {}))
        /\ live' = (live \cup (IF initCalled THEN {test} ELSE {}))
                     \ (IF deinitCalled THEN {test} ELSE {})
        /\ iterCase' = IF initCalled \/ iterCalled THEN test ELSE iterCase
        /\ iterCalls' = IF iterCalled
                        THEN (IF initCalled THEN 1
                              ELSE IF iterCalls < MaxIterCalls THEN iterCalls + 1
                              ELSE iterCalls)
                        ELSE IF initCalled THEN 0 ELSE iterCalls
        /\ scriptRun' = IF iterCalled THEN iterRes.script
                        ELSE IF initCalled THEN "none" ELSE scriptRun
        /\ lastOutcome' =
              IF iterCalled
              THEN [kind |-> IF iterRes.threw THEN "throw" ELSE iterRes.val,
                    isOk |-> iterRes.isOk]
              ELSE IF initCalled THEN [kind |-> "none", isOk |-> FALSE]
              ELSE lastOutcome
        /\ lastInit' =
              IF initCalled
              THEN [run |-> initRun, threw |-> initRes.threw, val |-> initRes.val,
                    ready |-> initRes.obj.m_transformFeedback # Null,
                    test |-> test, obj |-> initRes.obj]
              ELSE lastInit
        /\ iterated' = IF iterCalled THEN obj2
                       ELSE IF initCalled THEN NoObject ELSE iterated
        /\ glObjects' =
              [glObjects EXCEPT ![test] =
                  ((@ \cup (IF initCalled THEN initRes.created ELSE {}))
                     \cup (IF iterCalled THEN iterRes.leaves ELSE {}))
                  \ (IF deinitCalled THEN deinitDeletes(obj2) ELSE {})]
        /\ UNCHANGED <<returned, resets>>
        /\ iterAfterThrow' =
              (iterAfterThrow
               \/ (iterCalled /\ ~initCalled /\ iterCase = test
                   /\ lastOutcome.kind = "throw"))

RunTestCases ==
    /\ scheduled
    /\ callbacks' = (callbacks + 1) % 2
    /\ \E filter \in {IF stateFilter = "undefined" THEN urlFilter ELSE stateFilter} :
       \E proceed \in {ShouldProceed(lastResult)} :
       \E nx \in {IF proceed THEN next("root", filter, cursor)
                  ELSE [test |-> currentTest, cur |-> cursor]} :
          /\ stateFilter' = filter
          /\ currentTest' = nx.test
          /\ cursor' = nx.cur
          /\ IF nx.test # Null
             THEN /\ scheduled' = TRUE
                  /\ terminated' = terminated
                  /\ IF nx.test \in Cases
                     THEN \E initRun \in InitRuns, gpu \in GpuRuns :
                             RunCase(nx.test, proceed, initRun, gpu)
                     ELSE \* a DeqpTest without init, iterate and deinit
                          UNCHANGED <<lastResult, cases, glErrors, historyVars>>
             ELSE \* No more tests. All done.
                  /\ terminated' = TRUE
                  /\ scheduled' = FALSE
                  /\ UNCHANGED <<lastResult, cases, glErrors, historyVars>>
    /\ UNCHANGED <<urlFilter, spec, faulty, topoVars, rtVars, tpVars>>

(***************************************************************************)
(* The layout init() derives for a case: m_inputStride, m_attributes,      *)
(* m_transformFeedbackOutputs and m_bufferStrides.  An Attribute is a      *)
(* scalar or vector of 4-byte components.  Three programs:                 *)
(*   flatInt     varying "flat highp int v_a", captured, interleaved       *)
(*   vec2        varying "highp vec2 v_b", captured, interleaved           *)
(*   separate    gl_Position and v_a captured in separate buffers          *)
(***************************************************************************)
Attribute(name, scalarType, numComponents, offset) ==
    [name |-> name, scalarType |-> scalarType, numComponents |-> numComponents,
     offset |-> offset]

Output(bufferNdx, offset, name, scalarSize, inputs) ==
    [bufferNdx |-> bufferNdx, offset |-> offset, name |-> name,
     scalarSize |-> scalarSize, inputs |-> inputs]

a_position == Attribute("a_position", "float", 4, 0)

a_a == Attribute("a_a", "int", 1, 16)

a_b == Attribute("a_b", "float", 2, 16)

Layouts ==
    [flatInt |->
        [m_inputStride |-> 20,
         m_attributes |-> <<a_position, a_a>>,
         m_transformFeedbackOutputs |-> <<Output(0, 0, "v_a", 1, <<a_a>>)>>,
         m_bufferStrides |-> <<4>>],
     vec2 |->
        [m_inputStride |-> 24,
         m_attributes |-> <<a_position, a_b>>,
         m_transformFeedbackOutputs |-> <<Output(0, 0, "v_b", 2, <<a_b>>)>>,
         m_bufferStrides |-> <<8>>],
     separate |->
        [m_inputStride |-> 20,
         m_attributes |-> <<a_position, a_a>>,
         m_transformFeedbackOutputs |->
            <<Output(0, 0, "gl_Position", 4, <<a_position>>),
              Output(1, 0, "v_a", 1, <<a_a>>)>>,
         m_bufferStrides |-> <<16, 4>>]]

BUFFER_GUARD_MULTIPLIER == 2

\* The sentinel byte of writeBufferGuard.
GuardByte == 205

\* A 4-byte word of sentinel bytes (0xCDCDCDCD): a value no input word has.
GuardWord == 0 - GuardByte

(***************************************************************************)
(* Buffer contents.  A 4-byte word is an integer; a float word holds its   *)
(* value in units of 0.05, so that "Math.abs(difInOut) < 0.1" is a         *)
(* difference below FloatTenth units.  genInputData fills the input buffer *)
(* with random values: word w holds a value of its own.                    *)
(***************************************************************************)
FloatTenth == 2

genInputData(w) == 4 * (w + 1)

jsAbs(i) == IF i < 0 THEN -i ELSE i

(***************************************************************************)
(* Totals of runTest ("Compute totals")                                    *)
(***************************************************************************)
RECURSIVE sumNumElements(_, _)
sumNumElements(calls, upto) ==
    IF upto = 0 THEN 0
    ELSE sumNumElements(calls, upto - 1) + calls[upto].numElements

RECURSIVE sumOutputs(_, _, _)
sumOutputs(prim, calls, upto) ==
    IF upto = 0 THEN 0
    ELSE sumOutputs(prim, calls, upto - 1)
         + (IF calls[upto].transformFeedbackEnabled
            THEN getTransformFeedbackOutputCount(prim, calls[upto].numElements).val
            ELSE 0)

(***************************************************************************)
(* The GPU: what transform feedback captures (OpenGL ES 3.0, 2.14).  A     *)
(* draw with capture active appends one record per vertex of every         *)
(* complete primitive; the vertex-stage output for an attribute is the     *)
(* attribute (the generated shader passes it through).                     *)
(***************************************************************************)
\* The input vertex, within the draw, of captured vertex k.
glVertexOfOutput(prim, n, k) ==
    CASE prim = "TRIANGLE_STRIP" ->
            LET tri == k \div 3
                vtx == k % 3
            IN  IF tri % 2 # 0 /\ vtx < 2 THEN tri + 1 - vtx ELSE tri + vtx
      [] prim = "TRIANGLE_FAN" -> IF k % 3 # 0 THEN (k \div 3) + (k % 3) ELSE 0
      [] prim = "LINE_STRIP"   -> (k \div 2) + (k % 2)
      [] prim = "LINE_LOOP"    ->
            LET idx == (k \div 2) + (k % 2) IN IF idx < n THEN idx ELSE 0
      [] OTHER -> k

glVerticesCaptured(prim, n) ==
    glPrimitivesWritten(prim, n)
      * (CASE prim \in {"TRIANGLES", "TRIANGLE_STRIP", "TRIANGLE_FAN"} -> 3
           [] prim \in {"LINES", "LINE_STRIP", "LINE_LOOP"} -> 2
           [] OTHER -> 1)

\* The words of one attribute of input vertex v.
AttributeWords(layout, attr, v) ==
    [c \in 1..attr.numComponents |->
        genInputData((v * layout.m_inputStride + attr.offset) \div 4 + (c - 1))]

RECURSIVE concatAll(_)
concatAll(seqs) == IF seqs = <<>> THEN <<>> ELSE Head(seqs) \o concatAll(Tail(seqs))

\* The record captured into buffer bufNdx for input vertex v.
glRecord(layout, bufNdx, v) ==
    LET outs == SelectSeq(layout.m_transformFeedbackOutputs,
                          LAMBDA o : o.bufferNdx = bufNdx)
    IN  concatAll([i \in 1..Len(outs) |->
            concatAll([j \in 1..Len(outs[i].inputs) |->
                AttributeWords(layout, outs[i].inputs[j], v)])])

\* The words a draw command appends to buffer bufNdx.
glCaptureDraw(layout, prim, bufNdx, cmd) ==
    IF cmd.op = "draw" /\ cmd.tf = "active"
    THEN concatAll([k \in 1..glVerticesCaptured(prim, cmd.count) |->
            glRecord(layout, bufNdx, cmd.first + glVertexOfOutput(prim, cmd.count, k - 1))])
    ELSE <<>>

\* The data words of buffer bufNdx after the commands of log: what was
\* captured, at most sizeWords of it, the rest still holding the fill.
glBufferData(layout, prim, bufNdx, log, sizeWords) ==
    SubSeq(concatAll([i \in 1..Len(log) |->
                        glCaptureDraw(layout, prim, bufNdx, log[i])])
             \o [w \in 1..sizeWords |-> GuardWord],
           1, sizeWords)

\* What getBufferSubData returns: the buffer of a conforming GPU, or one
\* that differs from it in the way fault says.
ReadbackFaults == {"none", "value", "rounding", "overrun", "overrunEnd"}

glReadback(data, guardSize, fault) ==
    [data |->
        CASE fault = "value" /\ Len(data) > 0 ->
                [data EXCEPT ![1] = @ + FloatTenth]
          [] fault = "rounding" /\ Len(data) > 0 ->
                [data EXCEPT ![Len(data)] = @ + (FloatTenth - 1)]
          [] OTHER -> data,
     guard |->
        [b \in 1..guardSize |->
            IF (fault = "overrun" /\ b = 1) \/ (fault = "overrunEnd" /\ b = guardSize)
            THEN 0 ELSE GuardByte]]

(***************************************************************************)
(* compareTransformFeedbackOutput.  buffers.input is the input data        *)
(* (byteLength, offset, stride), buffers.output the readback (data, guard, *)
(* offset, stride).  A typed array of one element at a byte offset that is *)
(* no multiple of 4 or not inside the buffer is a RangeError; a fractional *)
(* offset is truncated by the constructor.                                 *)
(***************************************************************************)
typedArrayAt(byteLength, byteOffset) ==
    LET off == jsTrunc(byteOffset)
    IN  IF off % 4 # 0 \/ off + 4 > byteLength
        THEN Thrown("RangeError") ELSE Returned(off \div 4)

\* "isEqual" of one component.
isEqualComponent(scalarType, inValue, outValue) ==
    IF scalarType = "float"
    THEN jsAbs(inValue - outValue) < FloatTenth
    ELSE inValue = outValue

RECURSIVE compareLoop(_, _, _, _, _, _, _, _)
compareLoop(prim, output, numInputs, buffers, attrNdx, outNdx, compNdx, acc) ==
    IF attrNdx >= Len(output.inputs) THEN acc
    ELSE
    LET attribute == output.inputs[attrNdx + 1]
        numOutputs == getTransformFeedbackOutputCount(prim, numInputs).val
    IN  IF ~(acc.isOk /\ outNdx < numOutputs)
        THEN \* outOffset += numComponents * 4
             compareLoop(prim, output, numInputs, buffers, attrNdx + 1, 0, 0,
                         [acc EXCEPT !.outOffset = @ + attribute.numComponents * 4])
        ELSE IF ~(acc.isOk /\ compNdx < attribute.numComponents)
        THEN compareLoop(prim, output, numInputs, buffers, attrNdx, outNdx + 1, 0, acc)
        ELSE
        LET inNdx == getAttributeIndex(prim, numInputs, outNdx).val
            outByte == buffers.output.offset + buffers.output.stride * outNdx
                       + acc.outOffset + compNdx * 4
            inByte == jsAdd(jsAdd(Num(buffers.input.offset),
                                  jsMulInt(inNdx, buffers.input.stride)),
                            Num(attribute.offset + compNdx * 4))
            outBuffer == typedArrayAt(
                            4 * Len(buffers.output.data) + Len(buffers.output.guard),
                            Num(outByte))
            inBuffer == typedArrayAt(buffers.input.byteLength, inByte)
        IN  IF outBuffer.threw \/ inBuffer.threw
            THEN [acc EXCEPT !.threw = TRUE, !.isOk = FALSE,
                             !.reads = @ \cup {[bufferNdx |-> output.bufferNdx,
                                                outOffset |-> acc.outOffset,
                                                attrOffset |-> attribute.offset,
                                                outNdx |-> outNdx, compNdx |-> compNdx,
                                                outByte |-> outByte, inByte |-> inByte,
                                                threw |-> TRUE, isEqual |-> FALSE]}]
            ELSE
            LET outValue == IF outBuffer.val < Len(buffers.output.data)
                            THEN buffers.output.data[outBuffer.val + 1] ELSE GuardWord
                isEqual == isEqualComponent(attribute.scalarType,
                               genInputData(inBuffer.val), outValue)
            IN  compareLoop(prim, output, numInputs, buffers, attrNdx, outNdx,
                            compNdx + 1,
                            [acc EXCEPT !.isOk = isEqual,
                                        !.reads = @ \cup {[bufferNdx |-> output.bufferNdx,
                                            outOffset |-> acc.outOffset,
                                            attrOffset |-> attribute.offset,
                                            outNdx |-> outNdx, compNdx |-> compNdx,
                                            outByte |-> outByte, inByte |-> inByte,
                                            threw |-> FALSE, isEqual |-> isEqual]}])

compareTransformFeedbackOutput(prim, output, numInputs, buffers) ==
    compareLoop(prim, output, numInputs, buffers, 0, 0, 0,
                [isOk |-> TRUE, threw |-> FALSE, outOffset |-> output.offset,
                 reads |-> {}])

\* verifyGuard
verifyGuard(buffer) == \A i \in 1..Len(buffer) : buffer[i] = GuardByte

(***************************************************************************)
(* SpecTopo: the three functions applied to every topology value and every *)
(* element count up to MaxN.                                               *)
(***************************************************************************)
NoResult == [threw |-> FALSE, val |-> "none"]

\* The context raises no error every time.
NoFault == [test |-> Null, script |-> "none"]

NoInit == [run |-> "none", threw |-> FALSE, val |-> "none", ready |-> FALSE,
           test |-> Null, obj |-> NoObject]

TypePathIdle ==
    /\ tpPc = "idle" /\ tpType = Null /\ tpSteps = <<>> /\ tpPath = <<>>
    /\ tpRange = <<0, 0>>
    /\ tpValid = NoResult /\ tpVarType = NoResult
    /\ tpText = <<>> /\ tpParsed = NoResult
    /\ tpIter = Null /\ tpYield = <<>> /\ tpNexts = 0 /\ tpRound = NoResult
    /\ tpProgSpec = Null /\ tpLayout = NoResult /\ tpOutputs = NoResult
    /\ tpCall = Null /\ tpResult = NoResult

TopoIdle ==
    /\ tPc = "idle" /\ tPrim = "POINTS" /\ tN = 0 /\ tOutNdx = 0
    /\ tCount = NoResult /\ tPrimCount = NoResult /\ tIndex = NoResult

RunnerIdle ==
    /\ scheduled = FALSE /\ terminated = FALSE
    /\ urlFilter = Null /\ stateFilter = "undefined" /\ currentTest = Null
    /\ lastResult = "STOP"
    /\ spec = NoChildren
    /\ cursor = [n \in Nodes |-> 0]
    /\ cases = NewCases
    /\ glErrors = 0
    /\ faulty = NoFault
    /\ callbacks = 0
    /\ initCalls = [c \in Cases |-> 0]
    /\ deinitCalls = [c \in Cases |-> 0]
    /\ live = {}
    /\ initWhileLive = FALSE
    /\ iterCase = Null
    /\ iterCalls = 0
    /\ scriptRun = "none"
    /\ lastOutcome = [kind |-> "none", isOk |-> FALSE]
    /\ iterAfterThrow = FALSE
    /\ lastInit = NoInit
    /\ iterated = NoObject
    /\ glObjects = [c \in Cases |-> {}]
    /\ returned = <<>>
    /\ resets = 0

RunTestIdle ==
    /\ rtPc = "idle" /\ rtPrim = "POINTS" /\ rtCalls = <<>> /\ rtLayout = "none"
    /\ rtNumInputs = 0 /\ rtNumOutputs = 0 /\ rtI = 0 /\ rtOffset = 0
    /\ rtTfEnabled = TRUE
    /\ rtOutputsOk = TRUE /\ rtImagesOk = TRUE /\ rtQueryOk = TRUE
    /\ rtExpected = Num(0) /\ rtNumPrimitives = 0
    /\ rtResult = NoResult
    /\ glTf = "inactive" /\ glQuery = "none" /\ glBuffers = <<>> /\ glLog = <<>>
    /\ rtReadbacks = 0 /\ rtReads = {} /\ rtGuardsRead = <<>> /\ rtChecks = {}

InitTopo ==
    /\ RunnerIdle
    /\ RunTestIdle
    /\ TypePathIdle
    /\ tPc = "in"
    /\ tPrim \in primitiveType
    /\ tN \in 0..MaxN
    /\ tOutNdx = 0
    /\ tCount = NoResult /\ tPrimCount = NoResult /\ tIndex = NoResult

\* The two counts of one draw call of tN elements.
TopoCounts ==
    /\ tPc = "in"
    /\ tCount' = getTransformFeedbackOutputCount(tPrim, tN)
    /\ tPrimCount' = getTransformFeedbackPrimitiveCount(tPrim, tN)
    /\ tPc' = "count"
    /\ UNCHANGED <<tPrim, tN, tOutNdx, tIndex, runnerVars, historyVars, rtVars, tpVars>>

\* compareTransformFeedbackOutput's loop body: one output slot below the count.
TopoIndex ==
    /\ tPc = "count"
    /\ ~tCount.threw
    /\ \E outNdx \in 0..(tCount.val - 1) :
          /\ tOutNdx' = outNdx
          /\ tIndex' = getAttributeIndex(tPrim, tN, outNdx)
    /\ tPc' = "done"
    /\ UNCHANGED <<tPrim, tN, tCount, tPrimCount, runnerVars, historyVars, rtVars, tpVars>>

NextTopo == TopoCounts \/ TopoIndex

SpecTopo == InitTopo /\ [][NextTopo]_vars

(***************************************************************************)
(* Spec: the runner                                                        *)
(***************************************************************************)
\* The page has built the tree and calls runTestCases for the first time.
Init ==
    /\ TopoIdle
    /\ RunTestIdle
    /\ TypePathIdle
    /\ scheduled = TRUE /\ terminated = FALSE
    /\ urlFilter \in {Null, "g", "b"}
    /\ stateFilter = "undefined" /\ currentTest = Null
    /\ lastResult = "STOP"
    /\ spec \in TreeShapes
    /\ cursor = [n \in Nodes |-> 0]
    /\ cases = NewCases
    /\ glErrors = 0
    /\ faulty = NoFault
    /\ callbacks = 0
    /\ initCalls = [c \in Cases |-> 0]
    /\ deinitCalls = [c \in Cases |-> 0]
    /\ live = {}
    /\ initWhileLive = FALSE
    /\ iterCase = Null
    /\ iterCalls = 0
    /\ scriptRun = "none"
    /\ lastOutcome = [kind |-> "none", isOk |-> FALSE]
    /\ iterAfterThrow = FALSE
    /\ lastInit = NoInit
    /\ iterated = NoObject
    /\ glObjects = [c \in Cases |-> {}]
    /\ returned = <<>>
    /\ resets = 0

Next == RunTestCases

Spec == Init /\ [][Next]_vars

(***************************************************************************)
(* SpecLive: the runner with a context that may raise an error every time  *)
(* one case runs one script.  runTestCases ends with                       *)
(* stateMachine.runCallback(runTestCases) whenever currentTest is set, and *)
(* the page runs every callback it was given: weak fairness of the         *)
(* callback.  Every step of this specification is a callback, so a step    *)
(* that changes callbacks is a RunTestCases step.                          *)
(***************************************************************************)
Faults ==
    {NoFault} \cup [test : {"a"}, script : {s_iterate_iterations[1], s_iterate_iterations[2]}]

InitLive ==
    /\ TopoIdle
    /\ RunTestIdle
    /\ TypePathIdle
    /\ scheduled = TRUE /\ terminated = FALSE
    /\ urlFilter \in {Null, "g"}
    /\ stateFilter = "undefined" /\ currentTest = Null
    /\ lastResult = "STOP"
    /\ spec \in TreeShapes
    /\ cursor = [n \in Nodes |-> 0]
    /\ cases = NewCases
    /\ glErrors = 0
    /\ faulty \in Faults
    /\ callbacks = 0
    /\ initCalls = [c \in Cases |-> 0]
    /\ deinitCalls = [c \in Cases |-> 0]
    /\ live = {}
    /\ initWhileLive = FALSE
    /\ iterCase = Null
    /\ iterCalls = 0
    /\ scriptRun = "none"
    /\ lastOutcome = [kind |-> "none", isOk |-> FALSE]
    /\ iterAfterThrow = FALSE
    /\ lastInit = NoInit
    /\ iterated = NoObject
    /\ glObjects = [c \in Cases |-> {}]
    /\ returned = <<>>
    /\ resets = 0

NextLive == RunTestCases

\* The page runs a callback it was given with stateMachine.runCallback.
RunCallback == scheduled /\ callbacks' = (callbacks + 1) % 2

SpecLive == InitLive /\ [][NextLive]_vars /\ WF_callbacks(RunCallback)

(***************************************************************************)
(* SpecTree: next() and reset() called on the root of a test tree, in any  *)
(* order.  The trees are those addChild builds: every node but the root    *)
(* has one parent.                                                         *)
(***************************************************************************)
MaxNextCalls == 6

MaxResets == 2

TreesOfNext ==
    TreeShapes
    \cup { NoChildren,
           [NoChildren EXCEPT !["root"] = <<"a">>],
           [NoChildren EXCEPT !["root"] = <<"a", "g", "b">>, !["g"] = <<"c">>],
           [NoChildren EXCEPT !["root"] = <<"g">>, !["g"] = <<"a", "b", "c">>],
           [NoChildren EXCEPT !["root"] = <<"a">>, !["a"] = <<"g", "b">>, !["g"] = <<"c">>],
           [NoChildren EXCEPT !["root"] = <<"a", "b", "c", "g">>] }

InitTree ==
    /\ TopoIdle
    /\ RunTestIdle
    /\ TypePathIdle
    /\ scheduled = FALSE /\ terminated = FALSE
    /\ urlFilter = Null /\ stateFilter = "undefined" /\ currentTest = Null
    /\ lastResult = "STOP"
    /\ spec \in TreesOfNext
    /\ cursor = [n \in Nodes |-> 0]
    /\ cases = NewCases
    /\ glErrors = 0
    /\ faulty = NoFault
    /\ callbacks = 0
    /\ initCalls = [c \in Cases |-> 0]
    /\ deinitCalls = [c \in Cases |-> 0]
    /\ live = {}
    /\ initWhileLive = FALSE
    /\ iterCase = Null
    /\ iterCalls = 0
    /\ scriptRun = "none"
    /\ lastOutcome = [kind |-> "none", isOk |-> FALSE]
    /\ iterAfterThrow = FALSE
    /\ lastInit = NoInit
    /\ iterated = NoObject
    /\ glObjects = [c \in Cases |-> {}]
    /\ returned = <<>>
    /\ resets = 0

TreeFrame ==
    UNCHANGED <<scheduled, terminated, urlFilter, stateFilter, currentTest, lastResult,
                spec, cases, glErrors, faulty, callbacks, initCalls, deinitCalls, live, initWhileLive,
                iterCase, iterCalls, scriptRun, lastOutcome, iterAfterThrow, lastInit,
                iterated, glObjects, topoVars, rtVars, tpVars>>

\* root.next()
CallNext ==
    /\ Len(returned) < MaxNextCalls
    /\ \E r \in {next("root", Null, cursor)} :
          /\ cursor' = r.cur
          /\ returned' = Append(returned, r.test)
    /\ UNCHANGED resets
    /\ TreeFrame

\* root.reset()
CallReset ==
    /\ resets < MaxResets
    /\ cursor' = reset("root", cursor)
    /\ returned' = <<>>
    /\ resets' = resets + 1
    /\ TreeFrame

NextTree ==
    \/ CallNext
    \/ CallReset

SpecTree == InitTree /\ [][NextTree]_vars

(***************************************************************************)
(* SpecRunTest: TransformFeedbackCase.runTest, one group of GL calls per   *)
(* step.  The context may raise an error at any GLU_EXPECT_NO_ERROR, the   *)
(* buffers read back may differ from what a conforming GPU captures, the   *)
(* query may return 0, the two images may differ.                          *)
(***************************************************************************)
MaxElems == 3

ScriptLengths == {1, 2}

DrawCalls == {dc(n, f) : n \in 1..MaxElems, f \in BOOLEAN}

\* Scripts of the model: every short script, and elemCount4 of s_iterate.
Scripts ==
    UNION {[1..l -> DrawCalls] : l \in ScriptLengths}
      \cup {s_iterate_testCases.elemCount4}

InitRunTest ==
    /\ TopoIdle
    /\ RunnerIdle
    /\ TypePathIdle
    /\ rtPc = "setup"
    /\ rtPrim \in DrawTopologies
    /\ rtCalls \in Scripts
    /\ rtLayout \in DOMAIN Layouts
    /\ rtNumInputs = 0 /\ rtNumOutputs = 0 /\ rtI = 0 /\ rtOffset = 0
    /\ rtTfEnabled = TRUE
    /\ rtOutputsOk = TRUE /\ rtImagesOk = TRUE /\ rtQueryOk = TRUE
    /\ rtExpected = Num(0) /\ rtNumPrimitives = 0
    /\ rtResult = NoResult
    /\ glTf = "inactive" /\ glQuery = "none" /\ glBuffers = <<>> /\ glLog = <<>>
    /\ rtReadbacks = 0 /\ rtReads = {} /\ rtGuardsRead = <<>> /\ rtChecks = {}

\* GLU_EXPECT_NO_ERROR threw.
GlErrorThrown == Thrown("gl.GetError() returned an error")

\* A transform feedback command: legal in the state tf or INVALID_OPERATION;
\* a command that raises an error leaves the state alone.
glTfLegal(tf, op) ==
    CASE op = "begin"  -> tf = "inactive"
      [] op = "pause"  -> tf = "active"
      [] op = "resume" -> tf = "paused"
      [] op = "end"    -> tf \in {"active", "paused"}
      [] OTHER         -> TRUE

glTfAfter(tf, op, envError) ==
    IF envError \/ ~glTfLegal(tf, op) THEN tf
    ELSE CASE op = "begin"  -> "active"
           [] op = "pause"  -> "paused"
           [] op = "resume" -> "active"
           [] op = "end"    -> "inactive"
           [] OTHER         -> tf

glRaises(tf, op, envError) == envError \/ ~glTfLegal(tf, op)

\* An entry of glLog: the command, the call of the script it was issued
\* for (-1 outside the loop), and the capture state when it was issued.
Command(op, call, first, count, tf) ==
    [op |-> op, call |-> call, first |-> first, count |-> count, tf |-> tf]

\* writeBufferGuard fills the whole buffer, data and guard, with 0xCD.
writeBufferGuard(bufferSize, guardSize) ==
    [size |-> bufferSize, guardSize |-> guardSize,
     guard |-> [i \in 1..guardSize |-> GuardByte]]

\* "Compute totals" to glBeginQuery.
RunTestSetup ==
    /\ rtPc = "setup"
    /\ \E envError \in BOOLEAN :
       \E layout \in {Layouts[rtLayout]} :
       \E numOutputs \in {sumOutputs(rtPrim, rtCalls, Len(rtCalls))} :
          /\ rtNumInputs' = sumNumElements(rtCalls, Len(rtCalls))
          /\ rtNumOutputs' = numOutputs
          /\ glBuffers' =
                [b \in 1..Len(layout.m_bufferStrides) |->
                    writeBufferGuard(layout.m_bufferStrides[b] * numOutputs,
                                     layout.m_bufferStrides[b] * BUFFER_GUARD_MULTIPLIER)]
          /\ IF envError
             THEN /\ glQuery' = "created"
                  /\ rtResult' = GlErrorThrown
                  /\ rtPc' = "thrown"
             ELSE /\ glQuery' = "active"
                  /\ rtResult' = rtResult
                  /\ rtPc' = "begin"
    /\ UNCHANGED <<rtPrim, rtCalls, rtLayout, rtI, rtOffset, rtTfEnabled,
                   rtOutputsOk, rtImagesOk, rtQueryOk, rtExpected, rtNumPrimitives,
                   glTf, glLog, rtReadbacks, rtReads, rtGuardsRead, rtChecks,
                   topoVars, runnerVars, historyVars, tpVars>>

\* The finally block of the capture pass: the commands it adds to the log.
finallyLog_noResume(log, tf, tfEnabled) == log \o <<Command("end", -1, 0, 0, tf)>>

finallyLog(log, tf, tfEnabled) ==
    IF ~tfEnabled
    THEN log \o <<Command("resume", -1, 0, 0, tf),
                  Command("end", -1, 0, 0, glTfAfter(tf, "resume", FALSE))>>
    ELSE log \o <<Command("end", -1, 0, 0, tf)>>

finallyTf(tf, tfEnabled, envError) ==
    glTfAfter(IF ~tfEnabled THEN glTfAfter(tf, "resume", FALSE) ELSE tf,
              "end", envError)

finallyRaises(tf, tfEnabled, envError) ==
    \/ envError
    \/ (~tfEnabled /\ ~glTfLegal(tf, "resume"))
    \/ ~glTfLegal(IF ~tfEnabled THEN glTfAfter(tf, "resume", FALSE) ELSE tf, "end")

\* gl.clear and glBeginTransformFeedback.
BeginFeedback ==
    /\ rtPc = "begin"
    /\ \E envError \in BOOLEAN :
       \E log \in {Append(glLog, Command("begin", -1, 0, 0, glTf))} :
       \E tf \in {glTfAfter(glTf, "begin", envError)} :
          IF glRaises(glTf, "begin", envError)
          THEN /\ glLog' = finallyLog(log, tf, TRUE)
               /\ glTf' = finallyTf(tf, TRUE, FALSE)
               /\ glQuery' = "deleted"
               /\ rtResult' = GlErrorThrown
               /\ rtPc' = "thrown"
          ELSE /\ glLog' = log
               /\ glTf' = tf
               /\ UNCHANGED <<glQuery, rtResult>>
               /\ rtPc' = "draw"
    /\ rtI' = 0 /\ rtOffset' = 0 /\ rtTfEnabled' = TRUE
    /\ UNCHANGED <<rtPrim, rtCalls, rtLayout, rtNumInputs, rtNumOutputs,
                   rtOutputsOk, rtImagesOk, rtQueryOk, rtExpected, rtNumPrimitives,
                   glBuffers, rtReadbacks, rtReads, rtGuardsRead, rtChecks,
                   topoVars, runnerVars, historyVars, tpVars>>

\* "call.transformFeedbackEnabled != tfEnabled"
NeedsToggle_never(flag, tfEnabled) == FALSE

NeedsToggle(flag, tfEnabled) == flag # tfEnabled

\* One iteration of the draw loop: pause or resume if necessary, draw.
DrawCallStep ==
    /\ rtPc = "draw"
    /\ rtI < Len(rtCalls)
    /\ \E call \in {rtCalls[rtI + 1]} :
       \E toggle \in {NeedsToggle(call.transformFeedbackEnabled, rtTfEnabled)} :
       \E op \in {IF call.transformFeedbackEnabled THEN "resume" ELSE "pause"} :
       \E errorAt \in {"none", "draw"} \cup (IF toggle THEN {"toggle"} ELSE {}) :
       \E toggleRaises \in {toggle /\ glRaises(glTf, op, errorAt = "toggle")} :
       \E tf \in {IF toggle THEN glTfAfter(glTf, op, errorAt = "toggle") ELSE glTf} :
       \E log1 \in {IF toggle THEN Append(glLog, Command(op, rtI, 0, 0, glTf))
                    ELSE glLog} :
       \E log2 \in {Append(log1, Command("draw", rtI, rtOffset, call.numElements, tf))} :
          IF toggleRaises
          THEN \* the toggle raised: tfEnabled keeps its value, finally, catch
               /\ glLog' = finallyLog(log1, tf, rtTfEnabled)
               /\ glTf' = finallyTf(tf, rtTfEnabled, FALSE)
               /\ glQuery' = "deleted"
               /\ rtResult' = GlErrorThrown
               /\ rtPc' = "thrown"
               /\ UNCHANGED <<rtI, rtOffset, rtTfEnabled>>
          ELSE IF errorAt = "draw"
          THEN /\ rtTfEnabled' = (IF toggle THEN call.transformFeedbackEnabled
                                  ELSE rtTfEnabled)
               /\ glLog' = finallyLog(log2, tf, rtTfEnabled')
               /\ glTf' = finallyTf(tf, rtTfEnabled', FALSE)
               /\ glQuery' = "deleted"
               /\ rtResult' = GlErrorThrown
               /\ rtPc' = "thrown"
               /\ UNCHANGED <<rtI, rtOffset>>
          ELSE /\ rtTfEnabled' = (IF toggle THEN call.transformFeedbackEnabled
                                  ELSE rtTfEnabled)
               /\ glLog' = log2
               /\ glTf' = tf
               /\ rtOffset' = rtOffset + call.numElements
               /\ rtI' = rtI + 1
               /\ UNCHANGED <<glQuery, rtResult, rtPc>>
    /\ UNCHANGED <<rtPrim, rtCalls, rtLayout, rtNumInputs, rtNumOutputs,
                   rtOutputsOk, rtImagesOk, rtQueryOk, rtExpected, rtNumPrimitives,
                   glBuffers, rtReadbacks, rtReads, rtGuardsRead, rtChecks,
                   topoVars, runnerVars, historyVars, tpVars>>

\* The loop is over: the finally block, "Resume feedback before finishing it".
EndFeedback ==
    /\ rtPc = "draw"
    /\ rtI = Len(rtCalls)
    /\ \E envError \in BOOLEAN :
          /\ glLog' = finallyLog(glLog, glTf, rtTfEnabled)
          /\ glTf' = finallyTf(glTf, rtTfEnabled, envError)
          /\ IF finallyRaises(glTf, rtTfEnabled, envError)
             THEN /\ glQuery' = "deleted"
                  /\ rtResult' = GlErrorThrown
                  /\ rtPc' = "thrown"
             ELSE /\ UNCHANGED <<glQuery, rtResult>>
                  /\ rtPc' = "endQuery"
    /\ UNCHANGED <<rtPrim, rtCalls, rtLayout, rtNumInputs, rtNumOutputs, rtI,
                   rtOffset, rtTfEnabled,
                   rtOutputsOk, rtImagesOk, rtQueryOk, rtExpected, rtNumPrimitives,
                   glBuffers, rtReadbacks, rtReads, rtGuardsRead, rtChecks,
                   topoVars, runnerVars, historyVars, tpVars>>

\* glEndQuery and the status check right after submit.
EndQuery ==
    /\ rtPc = "endQuery"
    /\ \E envError \in BOOLEAN :
          IF envError
          THEN /\ rtResult' = GlErrorThrown
               /\ rtPc' = "thrown"
               /\ UNCHANGED glQuery
          ELSE /\ glQuery' = "ended"
               /\ rtPc' = "compare"
               /\ UNCHANGED rtResult
    /\ rtI' = 0
    /\ UNCHANGED <<rtPrim, rtCalls, rtLayout, rtNumInputs, rtNumOutputs,
                   rtOffset, rtTfEnabled,
                   rtOutputsOk, rtImagesOk, rtQueryOk, rtExpected, rtNumPrimitives,
                   glTf, glBuffers, glLog, rtReadbacks, rtReads, rtGuardsRead,
                   rtChecks, topoVars, runnerVars, historyVars, tpVars>>

\* "Process all draw calls and check ones with transform feedback enabled",
\* for one output: the loop over callNdx with its break.
RECURSIVE compareCalls(_, _, _, _, _, _, _, _, _)
compareCalls(prim, layout, out, calls, callNdx, inputOffset, outputOffset, result, acc) ==
    IF callNdx >= Len(calls) THEN acc
    ELSE
    LET call == calls[callNdx + 1]
        stride == layout.m_bufferStrides[out.bufferNdx + 1]
        cmp == compareTransformFeedbackOutput(prim, out, call.numElements,
                  [input |-> [byteLength |->
                                 sumNumElements(calls, Len(calls)) * layout.m_inputStride,
                              offset |-> inputOffset * layout.m_inputStride,
                              stride |-> layout.m_inputStride],
                   output |-> [data |-> result.data, guard |-> result.guard,
                               offset |-> outputOffset * stride,
                               stride |-> stride]])
        reads == acc.reads \cup {[call |-> callNdx, read |-> r] : r \in cmp.reads}
    IN  IF ~call.transformFeedbackEnabled
        THEN compareCalls(prim, layout, out, calls, callNdx + 1,
                          inputOffset + call.numElements, outputOffset, result, acc)
        ELSE IF cmp.threw
        THEN [acc EXCEPT !.threw = TRUE, !.reads = reads]
        ELSE IF ~cmp.isOk
        THEN [acc EXCEPT !.outputsOk = FALSE, !.reads = reads]
        ELSE compareCalls(prim, layout, out, calls, callNdx + 1,
                          inputOffset + call.numElements,
                          outputOffset
                            + getTransformFeedbackOutputCount(prim, call.numElements).val,
                          result, [acc EXCEPT !.reads = reads])

\* The loop over m_transformFeedbackOutputs for the buffer bufferNdx.
RECURSIVE compareOutputs(_, _, _, _, _, _, _)
compareOutputs(prim, layout, calls, bufferNdx, i, result, acc) ==
    IF i >= Len(layout.m_transformFeedbackOutputs) \/ acc.threw THEN acc
    ELSE LET out == layout.m_transformFeedbackOutputs[i + 1]
         IN  compareOutputs(prim, layout, calls, bufferNdx, i + 1, result,
                IF out.bufferNdx # bufferNdx THEN acc
                ELSE compareCalls(prim, layout, out, calls, 0, 0, 0, result, acc))

\* "if (!verifyGuard(...)) outputsOk = false"
guardVerdict(outputsOk, guard) == verifyGuard(guard)

\* One iteration of "Compare result buffers": read the buffer back, compare
\* its outputs, verify its guard.
CompareBuffer ==
    /\ rtPc = "compare"
    /\ rtI < Len(glBuffers)
    /\ \E envError \in BOOLEAN :
       \E fault \in ReadbackFaults :
       \E layout \in {Layouts[rtLayout]} :
       \E result \in {glReadback(
                        glBufferData(layout, rtPrim, rtI, glLog,
                                     glBuffers[rtI + 1].size \div 4),
                        glBuffers[rtI + 1].guardSize, fault)} :
       \E cmp \in {compareOutputs(rtPrim, layout, rtCalls, rtI, 0, result,
                      [outputsOk |-> rtOutputsOk, threw |-> FALSE, reads |-> rtReads])} :
       \E guardOk \in {guardVerdict(cmp.outputsOk, result.guard)} :
          IF envError
          THEN \* "mapping buffer"
               /\ fault = "none"
               /\ rtResult' = GlErrorThrown
               /\ rtPc' = "thrown"
               /\ UNCHANGED <<rtI, rtOutputsOk, rtReadbacks, rtReads, rtGuardsRead,
                              rtChecks>>
          ELSE IF cmp.threw
          THEN \* a typed array could not be made
               /\ rtResult' = Thrown("RangeError")
               /\ rtPc' = "thrown"
               /\ rtReadbacks' = rtReadbacks + 1
               /\ rtReads' = cmp.reads
               /\ UNCHANGED <<rtI, rtOutputsOk, rtGuardsRead, rtChecks>>
          ELSE /\ rtReadbacks' = rtReadbacks + 1
               /\ rtReads' = cmp.reads
               /\ rtGuardsRead' = Append(rtGuardsRead,
                                         [bytes |-> result.guard, ok |-> guardOk])
               /\ rtOutputsOk' = (cmp.outputsOk /\ guardOk)
               /\ rtI' = rtI + 1
               /\ rtChecks' = IF rtI + 1 = Len(glBuffers)
                              THEN rtChecks \cup {"outputs"} ELSE rtChecks
               /\ UNCHANGED <<rtResult, rtPc>>
    /\ UNCHANGED <<rtPrim, rtCalls, rtLayout, rtNumInputs, rtNumOutputs,
                   rtOffset, rtTfEnabled, rtImagesOk, rtQueryOk, rtExpected,
                   rtNumPrimitives, glTf, glQuery, glBuffers, glLog,
                   topoVars, runnerVars, historyVars, tpVars>>

\* "numPrimitives != expectedCount"
queryVerdict(numPrimitives, expectedCount) == jsEq(Num(numPrimitives), expectedCount)

\* "Check status after mapping buffers."
CheckQuery ==
    /\ rtPc = "compare"
    /\ rtI = Len(glBuffers)
    /\ \E envError \in BOOLEAN :
       \E query \in {"written", "zero"} :
       \E expectedCount \in {computeTransformFeedbackPrimitiveCount(rtPrim, rtCalls)} :
       \E numPrimitives \in {glQueryResult(query, rtPrim, rtCalls)} :
          IF envError
          THEN /\ query = "written"
               /\ rtResult' = GlErrorThrown
               /\ rtPc' = "thrown"
               /\ rtExpected' = expectedCount
               /\ UNCHANGED <<rtNumPrimitives, rtQueryOk, rtChecks>>
          ELSE /\ rtExpected' = expectedCount
               /\ rtNumPrimitives' = numPrimitives
               /\ rtQueryOk' = (rtQueryOk /\ queryVerdict(numPrimitives, expectedCount))
               /\ rtChecks' = rtChecks \cup {"query"}
               /\ rtPc' = "image"
               /\ UNCHANGED rtResult
    /\ UNCHANGED <<rtPrim, rtCalls, rtLayout, rtNumInputs, rtNumOutputs, rtI,
                   rtOffset, rtTfEnabled, rtOutputsOk, rtImagesOk,
                   glTf, glQuery, glBuffers, glLog, rtReadbacks, rtReads,
                   rtGuardsRead, topoVars, runnerVars, historyVars, tpVars>>

\* "return outputsOk && imagesOk && queryOk"
runTestResult_noQuery(outputsOk, imagesOk, queryOk) == outputsOk /\ imagesOk

runTestResult(outputsOk, imagesOk, queryOk) == outputsOk /\ imagesOk /\ queryOk

\* Clear the state, render without transform feedback, compare the images,
\* return.
CompareImages ==
    /\ rtPc = "image"
    /\ \E envError \in BOOLEAN :
       \E imagesOk \in BOOLEAN :
          IF envError
          THEN \* "glReadPixels()", "render"
               /\ imagesOk
               /\ rtResult' = GlErrorThrown
               /\ rtPc' = "thrown"
               /\ UNCHANGED <<rtImagesOk, rtChecks>>
          ELSE /\ rtImagesOk' = imagesOk
               /\ rtChecks' = rtChecks \cup {"images"}
               /\ rtResult' = Returned(runTestResult(rtOutputsOk, imagesOk, rtQueryOk))
               /\ rtPc' = "done"
    /\ UNCHANGED <<rtPrim, rtCalls, rtLayout, rtNumInputs, rtNumOutputs, rtI,
                   rtOffset, rtTfEnabled, rtOutputsOk, rtQueryOk, rtExpected,
                   rtNumPrimitives, glTf, glQuery, glBuffers, glLog, rtReadbacks,
                   rtReads, rtGuardsRead, topoVars, runnerVars, historyVars, tpVars>>

NextRunTest ==
    \/ RunTestSetup
    \/ BeginFeedback
    \/ DrawCallStep
    \/ EndFeedback
    \/ EndQuery
    \/ CompareBuffer
    \/ CheckQuery
    \/ CompareImages

SpecRunTest == InitRunTest /\ [][NextRunTest]_vars

(***************************************************************************)
(* Properties of the runner (Spec)                                         *)
(***************************************************************************)
\* C1: every case the runner starts is initialised exactly once, no
\* iterate() is called on a case that was not initialised, and no init() is
\* called while an earlier case is initialised and not yet de-initialised:
\* at most one case is live at any time.
C1_OneLiveCase ==
    /\ \A c \in Cases : initCalls[c] <= 1 /\ deinitCalls[c] <= initCalls[c]
    /\ live = {c \in Cases : initCalls[c] > deinitCalls[c]}
    /\ Cardinality(live) <= 1
    /\ ~initWhileLive
    /\ (iterCalls > 0 => initCalls[iterCase] = 1)

\* A second case is iterating after the first one was de-initialised.
C1_Witness ==
    \E c1 \in Cases, c2 \in Cases :
        /\ c1 # c2
        /\ initCalls[c1] = 1 /\ deinitCalls[c1] = 1
        /\ live = {c2} /\ iterCase = c2 /\ iterCalls >= 2

\* C2: after an iterate() call that threw, the case has been de-initialised
\* (it is no longer live), and iterate() is never called on it again.
C2_ThrowEndsCase ==
    /\ (lastOutcome.kind = "throw" => iterCase \notin live)
    /\ ~iterAfterThrow

\* C3: the k-th iterate() call after init runs the k-th script of
\* s_iterate.iterations, k is at most 10, and the call returns CONTINUE iff
\* the run passed and k < 10.
C3_KthCallRunsKthScript ==
    iterCalls > 0 =>
        /\ iterCalls <= Len(s_iterate_iterations)
        /\ scriptRun = s_iterate_iterations[iterCalls]
        /\ (lastOutcome.kind = "CONTINUE"
              <=> (lastOutcome.isOk /\ iterCalls < Len(s_iterate_iterations)))

(***************************************************************************)
(* Properties of the topology arithmetic (SpecTopo)                        *)
(***************************************************************************)
\* C9: getTransformFeedbackOutputCount(topology, N) is the number of
\* vertices of the complete primitives: 3 per triangle of N div 3 triangles,
\* 3 per triangle of a strip or fan of N - 2 triangles, 2 per line of N div 2
\* lines, 2 per line of a strip of N - 1 lines, 2 per line of a loop of N
\* lines (N > 1), N points; any other topology value raises an error.
C9_OutputCount ==
    tPc \in {"count", "done"} =>
        CASE tPrim = "TRIANGLES" ->
                ~tCount.threw /\ tCount.val = 3 * (tN \div 3)
          [] tPrim \in {"TRIANGLE_STRIP", "TRIANGLE_FAN"} ->
                ~tCount.threw /\ tCount.val = (IF tN >= 2 THEN 3 * (tN - 2) ELSE 0)
          [] tPrim = "LINES" ->
                ~tCount.threw /\ tCount.val = 2 * (tN \div 2)
          [] tPrim = "LINE_STRIP" ->
                ~tCount.threw /\ tCount.val = (IF tN >= 1 THEN 2 * (tN - 1) ELSE 0)
          [] tPrim = "LINE_LOOP" ->
                ~tCount.threw /\ tCount.val = (IF tN > 1 THEN 2 * tN ELSE 0)
          [] tPrim = "POINTS" ->
                ~tCount.threw /\ tCount.val = tN
          [] OTHER -> tCount.threw

\* Five vertices drawn as TRIANGLES: the remainder of two is dropped.
C9_Witness ==
    tPc = "count" /\ tPrim = "TRIANGLES" /\ tN = 5 /\ tCount = Returned(3)

\* C10: for every known topology, every N and every output slot below the
\* output count, getAttributeIndex returns an integer in 0..N-1 and
\* getTransformFeedbackPrimitiveCount returns an integer.
C10_IntegerArithmetic ==
    (tPc = "done" /\ tPrim \in DrawTopologies) =>
        /\ ~tIndex.threw
        /\ jsIsInteger(tIndex.val)
        /\ ~jsLt(tIndex.val, Num(0))
        /\ jsLt(tIndex.val, Num(tN))
        /\ ~tPrimCount.threw
        /\ jsIsInteger(tPrimCount.val)

(***************************************************************************)
(* Properties of one runTest execution (SpecRunTest)                       *)
(***************************************************************************)
\* The commands issued inside the draw loop, and the draws among them.
LoopLog == SelectSeq(glLog, LAMBDA c : c.call >= 0)

DrawsOf(log) == SelectSeq(log, LAMBDA c : c.op = "draw")

FlagOf(call) == rtCalls[call + 1].transformFeedbackEnabled

\* The capture state a call finds: active right after begin, else as the
\* call before it left it.
FlagBefore(call) == IF call = 0 THEN TRUE ELSE FlagOf(call - 1)

RunTestReturnsLater == rtPc \in {"endQuery", "compare", "query", "image", "done"}

\* C4: in the capture pass draws are issued in script order, each with the
\* vertex offset that is the sum of numElements of the earlier calls; a pause
\* or resume is issued exactly when the call's flag differs from the current
\* capture state, immediately before that call's draw; at every draw capture
\* is active iff the call's flag is true; pause is only issued while active
\* and resume only while paused.
C4_CapturePassOrder ==
    LET log == LoopLog
        draws == DrawsOf(log)
    IN  /\ Len(draws) <= Len(rtCalls)
        /\ \A j \in 1..Len(draws) :
              /\ draws[j].call = j - 1
              /\ draws[j].first = sumNumElements(rtCalls, j - 1)
              /\ draws[j].count = rtCalls[j].numElements
              /\ draws[j].tf \in {"active", "paused"}
              /\ (draws[j].tf = "active") <=> FlagOf(j - 1)
        /\ \A p \in 1..Len(log) :
              /\ log[p].op = "draw" =>
                    ((FlagOf(log[p].call) # FlagBefore(log[p].call))
                       <=> (/\ p > 1
                            /\ log[p - 1].op \in {"pause", "resume"}
                            /\ log[p - 1].call = log[p].call))
              /\ log[p].op = "pause" =>
                    /\ log[p].tf = "active"
                    /\ ~FlagOf(log[p].call)
              /\ log[p].op = "resume" =>
                    /\ log[p].tf = "paused"
                    /\ FlagOf(log[p].call)
              /\ (log[p].op \in {"pause", "resume"} /\ p < Len(log)) =>
                    /\ log[p + 1].op = "draw"
                    /\ log[p + 1].call = log[p].call
        /\ RunTestReturnsLater => Len(draws) = Len(rtCalls)

\* A run that paused for its first call and resumed for its second has
\* returned.
C4_Witness ==
    /\ rtPc = "done"
    /\ \E p \in 1..Len(LoopLog) : LoopLog[p].op = "pause" /\ LoopLog[p].call = 0
    /\ \E p \in 1..Len(LoopLog) : LoopLog[p].op = "resume" /\ LoopLog[p].call = 1

AllBytesAreGuard(bytes) == \A i \in 1..Len(bytes) : bytes[i] = 205

\* C6: runTest returns true iff every value comparison and every guard check
\* passed, the image comparison passed and the query result equalled the
\* expected count; all three checks have been made when it returns.
C6_ResultIsConjunction ==
    rtPc = "done" =>
        /\ ~rtResult.threw
        /\ rtResult.val =
              (/\ \A r \in rtReads : r.read.isEqual
               /\ \A b \in 1..Len(rtGuardsRead) : AllBytesAreGuard(rtGuardsRead[b].bytes)
               /\ rtImagesOk
               /\ jsEq(Num(rtNumPrimitives), rtExpected))
        /\ rtChecks = {"outputs", "query", "images"}
        /\ Len(rtGuardsRead) = Len(glBuffers)

\* A run whose values, guards and images were right and whose query result
\* was not has returned false.
C6_Witness ==
    /\ rtPc = "done"
    /\ rtReads # {}
    /\ \A r \in rtReads : r.read.isEqual
    /\ \A b \in 1..Len(rtGuardsRead) : AllBytesAreGuard(rtGuardsRead[b].bytes)
    /\ rtImagesOk
    /\ ~jsEq(Num(rtNumPrimitives), rtExpected)
    /\ rtResult = Returned(FALSE)

C8_ExpectedCount ==
    "query" \in rtChecks => jsEq(rtExpected, Num(glQueryWritten(rtPrim, rtCalls, 1)))

(***************************************************************************)
(* Properties of the topology arithmetic, continued (SpecTopo)             *)
(***************************************************************************)
\* C11: for TRIANGLE_STRIP with 5 input vertices the output count is 9 and
\* getAttributeIndex of outNdx = 0..8 is 0,1,2,2,1,3,3,4,2.
C11_TriangleStripFive ==
    (tPc = "done" /\ tPrim = "TRIANGLE_STRIP" /\ tN = 5) =>
        /\ tCount = Returned(9)
        /\ ~tIndex.threw
        /\ jsEq(tIndex.val, Num(<<0, 1, 2, 2, 1, 3, 3, 4, 2>>[tOutNdx + 1]))

(***************************************************************************)
(* Properties of TransformFeedbackCase.init (Spec)                         *)
(***************************************************************************)
\* C12: whenever the program fails to link, init() throws and neither
\* computes the layout nor creates buffers; the error is 'Not Supported' when
\* the limits are exceeded, otherwise the capture-of-arrays error when an
\* array is captured, otherwise 'Link failed'; a compile failure gives
\* 'Compile failed'.
C12_InitClassifiesFailure ==
    /\ lastInit.run = "link failed, limits exceeded" =>
          /\ lastInit.threw /\ ~lastInit.ready
          /\ lastInit.val = "Not Supported. Implementation limits exceeded."
    /\ lastInit.run = "link failed, array captured" =>
          /\ lastInit.threw /\ ~lastInit.ready
          /\ lastInit.val = "Capturing arrays is not supported (undefined in specification)"
    /\ lastInit.run = "link failed" =>
          /\ lastInit.threw /\ ~lastInit.ready
          /\ lastInit.val = "Link failed"
    /\ lastInit.run = "compile failed" =>
          /\ lastInit.threw /\ ~lastInit.ready
          /\ lastInit.val = "Compile failed"

(***************************************************************************)
(* SpecTypePath: the type-path utilities applied to a root type.  Paths    *)
(* are built the way the program builds them, with new VarTypeComponent.   *)
(***************************************************************************)
MaxIndex == 2

\* Paths and selector lists of up to three steps: member, element or column, component.
PathLengths == 0..3

RootTypes ==
    { highp("FLOAT"), highp("FLOAT_VEC2"), highp("INT_VEC3"),
      highp("FLOAT_MAT2"), highp("FLOAT_MAT2X3"),
      newTypeArray(highp("FLOAT"), 2),
      newTypeArray(highp("FLOAT_VEC2"), 5),
      newTypeArray(highp("INT"), 6),
      newTypeArray(highp("FLOAT_MAT2"), 1),
      newTypeArray(highp("FLOAT"), UNSIZED_ARRAY),
      newTypeStruct(<<newStructMember(<<"a">>, highp("FLOAT")),
                      newStructMember(<<"b">>, highp("FLOAT_VEC2"))>>),
      newTypeStruct(<<newStructMember(<<"m">>, newTypeArray(highp("FLOAT"), 2)),
                      newStructMember(<<"v", "2">>, highp("FLOAT_MAT2"))>>) }

ComponentKinds == {ComponentType[i] : i \in 1..Len(ComponentType)}

InitTypePath ==
    /\ TopoIdle
    /\ RunnerIdle
    /\ RunTestIdle
    /\ tpPc = "in"
    /\ tpType \in RootTypes
    /\ tpSteps = <<>> /\ tpPath = <<>> /\ tpRange = <<0, 0>>
    /\ tpValid = NoResult /\ tpVarType = NoResult
    /\ tpText = <<>> /\ tpParsed = NoResult
    /\ tpIter = Null /\ tpYield = <<>> /\ tpNexts = 0 /\ tpRound = NoResult
    /\ tpProgSpec = Null /\ tpLayout = NoResult /\ tpOutputs = NoResult
    /\ tpCall = Null /\ tpResult = NoResult

\* isValidTypePath(type, array, begin, end) on a path made of new VarTypeComponent(type_, index_)
ValidateTypePath ==
    /\ tpPc = "in"
    /\ \E n \in PathLengths :
         \E steps \in [1..n -> [type : ComponentKinds, index : 0..MaxIndex]] :
           \E begin \in 0..n :
             \E end \in begin..n :
               \E path \in {[i \in 1..n |-> VarTypeComponent(steps[i].type, steps[i].index)]} :
                 /\ tpSteps' = steps
                 /\ tpPath' = path
                 /\ tpRange' = <<begin, end>>
                 /\ tpValid' = isValidTypePath(tpType, path, begin, end)
    /\ tpPc' = "validated"
    /\ UNCHANGED <<tpType, tpVarType, tpText, tpParsed, tpIter, tpYield, tpNexts,
                   tpRound, tpProgSpec, tpLayout, tpOutputs,
                   tpCall, tpResult, topoVars, runnerVars, historyVars, rtVars>>

\* getVarType(type, array, start, end) on the same arguments
ResolveTypePath ==
    /\ tpPc = "validated"
    /\ tpVarType' = getVarType(tpType, tpPath, tpRange[1], tpRange[2])
    /\ tpPc' = "resolved"
    /\ UNCHANGED <<tpType, tpSteps, tpPath, tpRange, tpValid, tpText, tpParsed,
                   tpIter, tpYield, tpNexts, tpRound, tpProgSpec, tpLayout, tpOutputs,
                   tpCall, tpResult, topoVars, runnerVars, historyVars, rtVars>>

(***************************************************************************)
(* Texts handed to parseTypePath: a variable name, selectors '.name' and   *)
(* '[n]', and possibly a malformed tail.                                   *)
(***************************************************************************)
BigIndex == 12

Selectors ==
    {[sel |-> "member", name |-> n] : n \in {<<"a">>, <<"b">>, <<"m">>, <<"v", "2">>, <<"z">>}}
    \cup {[sel |-> "subscript", n |-> n] : n \in (0..MaxIndex) \cup {BigIndex}}

selectorText(s) ==
    IF s.sel = "member" THEN <<".">> \o s.name ELSE <<"[">> \o numberText(s.n) \o <<"]">>

RECURSIVE selectorsText(_)
selectorsText(ss) == IF ss = <<>> THEN <<>> ELSE selectorText(Head(ss)) \o selectorsText(Tail(ss))

VaryingName == <<"v", "_", "x">>

MalformedTails == {<<>>, <<"[">>, <<".">>, <<"]">>, <<"[", "a", "]">>, <<"[", "1">>, <<"#">>}

\* parseTypePath(nameWithPath, type)
ParseTypePath ==
    /\ tpPc = "in"
    /\ \E n \in PathLengths :
         \E ss \in [1..n -> Selectors] :
           \E tail \in MalformedTails :
             \E text \in {VaryingName \o selectorsText(ss) \o tail} :
               /\ tpSteps' = ss
               /\ tpText' = text
               /\ tpParsed' = parseTypePath(text, tpType)
    /\ tpPc' = "parsed"
    /\ UNCHANGED <<tpType, tpPath, tpRange, tpValid, tpVarType, tpIter, tpYield, tpNexts,
                   tpRound, tpProgSpec, tpLayout, tpOutputs,
                   tpCall, tpResult, topoVars, runnerVars, historyVars, rtVars>>

\* Texts with and without a leading identifier, or with a number in its place.
LeadingTexts == {<<>>, VaryingName, <<"7">>}

\* parseTypePath(nameWithPath, type) on such a text
ParseAnyText ==
    /\ tpPc = "in"
    /\ \E lead \in LeadingTexts, n \in 0..2 :
         \E ss \in [1..n -> Selectors] :
           \E tail \in MalformedTails :
             \E text \in {lead \o selectorsText(ss) \o tail} :
               /\ tpCall' = [fn |-> "parseTypePath", nameWithPath |-> text, type |-> tpType]
               /\ tpResult' = parseTypePath(text, tpType)
    /\ tpPc' = "called"
    /\ UNCHANGED <<tpType, tpSteps, tpPath, tpRange, tpValid, tpVarType, tpText, tpParsed,
                   tpIter, tpYield, tpNexts, tpRound, tpProgSpec, tpLayout, tpOutputs,
                   topoVars, runnerVars, historyVars, rtVars>>

\* for (var it = new VectorTypeIterator(type); ...
NewIterator ==
    /\ tpPc = "in"
    /\ \E it \in {VectorTypeIterator(tpType)} :
         /\ tpIter' = it
         /\ tpYield' = IF it.threw THEN <<>> ELSE <<it.m_path>>
    /\ tpPc' = "iterating"
    /\ UNCHANGED <<tpType, tpSteps, tpPath, tpRange, tpValid, tpVarType, tpText, tpParsed,
                   tpNexts, tpRound, tpProgSpec, tpLayout, tpOutputs,
                   tpCall, tpResult, topoVars, runnerVars, historyVars, rtVars>>

\* ... !it.end(); it.next()): the loop body sees getPath() of every position
IteratorNext ==
    /\ tpPc \in {"iterating", "round"}
    /\ ~tpIter.threw /\ ~tpIter.ended
    /\ \E it \in {SubTypeIterator_next(tpIter)} :
         /\ tpIter' = it
         /\ tpYield' = IF it.threw \/ it.ended THEN tpYield ELSE Append(tpYield, it.m_path)
    /\ tpNexts' = tpNexts + 1
    /\ tpPc' = "iterating"
    /\ UNCHANGED <<tpType, tpSteps, tpPath, tpRange, tpValid, tpVarType, tpText, tpParsed,
                   tpRound, tpProgSpec, tpLayout, tpOutputs,
                   tpCall, tpResult, topoVars, runnerVars, historyVars, rtVars>>

(***************************************************************************)
(* TypeAccessFormat.toString, array_op_equivalent and SubTypeAccess.is     *)
(***************************************************************************)
RECURSIVE formatLoop(_, _, _, _)
formatLoop(curType, path, i, str) ==
    IF i = Len(path) THEN Returned(str)
    ELSE LET iter == path[i + 1]
             subscriptText == str \o <<"[">> \o numberText(iter.index) \o <<"]">>
         IN  IF iter.type = "ARRAY_ELEMENT"
             THEN IF ~isArrayType(curType) THEN Thrown("Assert failed")
                  ELSE formatLoop(curType.elementType, path, i + 1, subscriptText)
             ELSE IF iter.type \in {"MATRIX_COLUMN", "VECTOR_COMPONENT"}
             THEN formatLoop(curType, path, i + 1, subscriptText)
             ELSE IF iter.type = "STRUCT_MEMBER"
             THEN IF ~isStructType(curType) THEN Thrown("Assert failed")
                  ELSE IF ~(i < Len(curType.m_members)) THEN Thrown("TypeError")
                  ELSE formatLoop(curType.m_members[i + 1].m_type, path, i + 1,
                                  str \o <<".">> \o curType.m_members[i + 1].m_name)
             ELSE Thrown("Unrecognized type")

TypeAccessFormat_toString(type, path) == formatLoop(type, path, 0, <<>>)

\* Every element of arr1 is compared with arr2[1], the second element of arr2,
\* which is undefined when arr2 has fewer than two elements.
array_op_equivalent(arr1, arr2) ==
    IF Len(arr1) # Len(arr2) THEN Returned(FALSE)
    ELSE IF Len(arr1) = 0 THEN Returned(TRUE)
    ELSE IF Len(arr2) < 2 THEN Thrown("TypeError")
    ELSE Returned(\A i \in 1..Len(arr1) : ~VarTypeComponent_isnt(arr1[i], arr2[2]))

SubTypeAccess_is(type, path, otherType, otherPath) ==
    LET paths == array_op_equivalent(path, otherPath) IN
    IF paths.threw THEN paths
    ELSE Returned(paths.val /\ VarType_is(type, otherType))

\* The round trip of the iterator's current position: validate the path,
\* render it after the variable name, parse the text, compare with is().
roundTrip(type, path) ==
    CHOOSE result \in {
        CHOOSE compared \in {
            [valid  |-> isValidTypePath(type, path, 0, Len(path)),
             text   |-> text,
             parsed |-> parsed,
             same   |-> IF parsed.threw THEN parsed
                        ELSE SubTypeAccess_is(type, path, type, parsed.val)]
            : parsed \in {IF text.threw THEN text
                          ELSE parseTypePath(VaryingName \o text.val, type)}} : TRUE
        : text \in {TypeAccessFormat_toString(type, path)}} : TRUE

RoundTrip ==
    /\ tpPc = "iterating"
    /\ ~tpIter.threw /\ ~tpIter.ended
    /\ tpRound' = roundTrip(tpType, tpIter.m_path)
    /\ tpPc' = "round"
    /\ UNCHANGED <<tpType, tpSteps, tpPath, tpRange, tpValid, tpVarType, tpText, tpParsed,
                   tpIter, tpYield, tpNexts, tpProgSpec, tpLayout, tpOutputs,
                   tpCall, tpResult, topoVars, runnerVars, historyVars, rtVars>>

\* The program specs of the test cases: gl_Position, gl_PointSize, whole
\* varyings and subscripted varyings, in either buffer mode.  A captured
\* name refers to a declared varying, and a subscript to one that has
\* elements, columns or components at that index.
\* A type without unsized arrays, as a varying must be.
RECURSIVE IsFiniteType(_)
IsFiniteType(t) ==
    CASE isBasicType(t)  -> TRUE
      [] isArrayType(t)  -> t.size # UNSIZED_ARRAY /\ IsFiniteType(t.elementType)
      [] isStructType(t) -> \A i \in 1..Len(t.m_members) : IsFiniteType(t.m_members[i].m_type)

SecondVaryingTypes == {highp("FLOAT_VEC3"), highp("FLOAT_MAT2"), newTypeArray(highp("INT"), 6)}

HasSubscript(type, n) ==
    \/ isArrayType(type) /\ inBounds(n, 0, type.size)
    \/ isBasicType(type) /\ isDataTypeMatrix(type.type)
                         /\ inBounds(n, 0, getDataTypeMatrixNumColumns(type.type))
    \/ isBasicType(type) /\ isDataTypeVector(type.type)
                         /\ inBounds(n, 0, getDataTypeScalarSize(type.type))

CapturedNames(varyings) ==
    {gl_Position, gl_PointSize}
    \cup {varyings[i].name : i \in 1..Len(varyings)}
    \cup {varyings[i].name \o <<"[">> \o numberText(n) \o <<"]">> :
            <<i, n>> \in {p \in (1..Len(varyings)) \X (0..MaxIndex) :
                            HasSubscript(varyings[p[1]].type, p[2])}}

MaxCaptured == 2

ProgramSpecs(firstType) ==
    {[m_varyings |-> vs, m_transformFeedbackVaryings |-> tf, m_bufferMode |-> mode] :
        <<vs, tf, mode>> \in
            {t \in ({<<>>, <<Varying(v_varA, firstType)>>}
                     \cup {<<Varying(v_varA, firstType), Varying(v_varB, second)>> :
                             second \in SecondVaryingTypes})
                   \X (UNION {[1..n -> {gl_Position, gl_PointSize, v_varA, v_varB,
                                        v_varA \o <<"[", "0", "]">>,
                                        v_varA \o <<"[", "1", "]">>,
                                        v_varB \o <<"[", "1", "]">>}] : n \in 1..MaxCaptured})
                   \X {"SEPARATE_ATTRIBS", "INTERLEAVED_ATTRIBS"} :
                \A i \in 1..Len(t[2]) : t[2][i] \in CapturedNames(t[1])}}

\* this.m_inputStride = computeInputLayout(this.m_attributes, varyings, isPointSizeUsed())
ComputeInputLayout ==
    /\ tpPc = "in"
    /\ IsFiniteType(tpType)
    /\ \E progSpec \in ProgramSpecs(tpType) :
         /\ tpProgSpec' = progSpec
         /\ tpLayout' = computeInputLayout(progSpec.m_varyings,
                            isPointSizeUsed(progSpec.m_transformFeedbackVaryings))
    /\ tpPc' = "layout"
    /\ UNCHANGED <<tpType, tpSteps, tpPath, tpRange, tpValid, tpVarType, tpText, tpParsed,
                   tpIter, tpYield, tpNexts, tpRound, tpOutputs,
                   tpCall, tpResult, topoVars, runnerVars, historyVars, rtVars>>

\* computeTransformFeedbackOutputs(...), then the strides of init
ComputeTransformFeedbackOutputs ==
    /\ tpPc = "layout"
    /\ ~tpLayout.threw
    /\ \E outputs \in {computeTransformFeedbackOutputs(<<>>, tpLayout.val.attributes,
                            tpProgSpec.m_varyings, tpProgSpec.m_transformFeedbackVaryings,
                            tpProgSpec.m_bufferMode, 0, 0)} :
         tpOutputs' =
            IF outputs.threw THEN outputs
            ELSE LET strides == bufferStrides(outputs.val, tpProgSpec.m_bufferMode) IN
                 IF strides.threw THEN strides
                 ELSE Returned([m_transformFeedbackOutputs |-> outputs.val,
                                m_bufferStrides |-> strides.val])
    /\ tpPc' = "outputs"
    /\ UNCHANGED <<tpType, tpSteps, tpPath, tpRange, tpValid, tpVarType, tpText, tpParsed,
                   tpIter, tpYield, tpNexts, tpRound, tpProgSpec, tpLayout,
                   tpCall, tpResult, topoVars, runnerVars, historyVars, rtVars>>

\* Varying names with and without the v_ prefix, and with v_ elsewhere.
VaryingNames == {v_varA, <<"v", "a", "r", "B">>, <<"v", "_">>, <<"x", "v", "_", "y">>}

\* Path steps as objects: any of the four kinds or null, any index.
AnySteps == [type : ComponentKinds \cup {Null}, index : (0..MaxIndex) \cup {BigIndex}]

\* getAttributeName(varyingName, path)
GetAttributeName ==
    /\ tpPc = "in"
    /\ \E varyingName \in VaryingNames, n \in 0..2 :
         \E path \in [1..n -> AnySteps] :
           /\ tpCall' = [fn |-> "getAttributeName", varyingName |-> varyingName, path |-> path]
           /\ tpResult' = getAttributeName(varyingName, path)
    /\ tpPc' = "called"
    /\ UNCHANGED <<tpType, tpSteps, tpPath, tpRange, tpValid, tpVarType, tpText, tpParsed,
                   tpIter, tpYield, tpNexts, tpRound, tpProgSpec, tpLayout, tpOutputs,
                   topoVars, runnerVars, historyVars, rtVars>>

(***************************************************************************)
(* StructType, declareVariable, declareStructType and the struct           *)
(* declarations of genShaderSources.  A JavaScript string value is         *)
(* JsString(characters); the value undefined is Undefined.                 *)
(***************************************************************************)
JsString(chars) == [str |-> chars]

undefinedText == <<"u", "n", "d", "e", "f", "i", "n", "e", "d">>

\* str += value
toText(value) == IF value = Undefined THEN undefinedText ELSE value.str

\* new StructType().Constructor(name)
newStructType(name) == [m_typeName |-> name, m_members |-> <<>>]

addMember(structType, name, type) ==
    [structType EXCEPT !.m_members = Append(@, newStructMember(name, type))]

\* this.m_typeName !== 'undefined'
hasTypeName(structType) == structType.m_typeName # JsString(undefinedText)

getTypeName(structType) == structType.m_typeName

\* new VarType().VarTypeStruct(structPtr), and getStruct() of it
VarTypeStruct(structPtr) ==
    [m_type |-> "TYPE_STRUCT", m_members |-> structPtr.m_members,
     m_typeName |-> structPtr.m_typeName]

getStruct(t) == [m_typeName |-> t.m_typeName, m_members |-> t.m_members]

getPrecisionName(prec) ==
    CASE prec = "PRECISION_LOWP"    -> <<"l", "o", "w", "p">>
      [] prec = "PRECISION_MEDIUMP" -> <<"m", "e", "d", "i", "u", "m", "p">>
      [] prec = "PRECISION_HIGHP"   -> <<"h", "i", "g", "h", "p">>

DataTypeNames ==
    <<<<"i", "n", "v", "a", "l", "i", "d">>,
      <<"f", "l", "o", "a", "t">>,
      <<"v", "e", "c", "2">>,
      <<"v", "e", "c", "3">>,
      <<"v", "e", "c", "4">>,
      <<"m", "a", "t", "2">>,
      <<"m", "a", "t", "2", "x", "3">>,
      <<"m", "a", "t", "2", "x", "4">>,
      <<"m", "a", "t", "3", "x", "2">>,
      <<"m", "a", "t", "3">>,
      <<"m", "a", "t", "3", "x", "4">>,
      <<"m", "a", "t", "4", "x", "2">>,
      <<"m", "a", "t", "4", "x", "3">>,
      <<"m", "a", "t", "4">>,
      <<"i", "n", "t">>,
      <<"i", "v", "e", "c", "2">>,
      <<"i", "v", "e", "c", "3">>,
      <<"i", "v", "e", "c", "4">>,
      <<"u", "i", "n", "t">>,
      <<"u", "v", "e", "c", "2">>,
      <<"u", "v", "e", "c", "3">>,
      <<"u", "v", "e", "c", "4">>,
      <<"b", "o", "o", "l">>,
      <<"b", "v", "e", "c", "2">>,
      <<"b", "v", "e", "c", "3">>,
      <<"b", "v", "e", "c", "4">>>>

getDataTypeName(dataType) == DataTypeNames[DataTypeValue(dataType) + 1]

indent(level) == [i \in 1..level |-> "\t"]

\* declareVariable, "Handle arrays" and "Print array sizes"
RECURSIVE innermostType(_)
innermostType(t) == IF isArrayType(t) THEN innermostType(t.elementType) ELSE t

RECURSIVE arraySizesText(_)
arraySizesText(t) ==
    IF ~isArrayType(t) THEN <<>>
    ELSE (IF t.size = UNSIZED_ARRAY THEN <<"[", "]">>
          ELSE <<"[">> \o numberText(t.size) \o <<"]">>)
         \o arraySizesText(t.elementType)

\* Every type of the model has a precision.
RECURSIVE declareVariable(_, _, _)
RECURSIVE declareStructType(_, _)
RECURSIVE declareMembers(_, _, _)
declareVariable(varType, name, level) ==
    CHOOSE str \in {
        (IF isBasicType(curType)
         THEN getPrecisionName(curType.precision) \o <<" ">> \o getDataTypeName(curType.type)
         ELSE IF hasTypeName(getStruct(curType))
         THEN toText(getTypeName(getStruct(curType)))
         ELSE declareStructType(getStruct(curType), level))
        \o <<" ">> \o name \o arraySizesText(varType)
        : curType \in {innermostType(varType)}} : TRUE

declareMembers(structType, memberNdx, level) ==
    IF memberNdx >= Len(structType.m_members) THEN <<>>
    ELSE indent(level + 1)
         \o declareVariable(structType.m_members[memberNdx + 1].m_type,
                            structType.m_members[memberNdx + 1].m_name, level + 1)
         \o <<";", "\n">>
         \o declareMembers(structType, memberNdx + 1, level)

declareStructType(structType, level) ==
    <<"s", "t", "r", "u", "c", "t">>
    \o (IF hasTypeName(structType) THEN <<" ">> \o toText(getTypeName(structType)) ELSE <<>>)
    \o <<"\n">> \o indent(level) \o <<"{", "\n">>
    \o declareMembers(structType, 0, level)
    \o indent(level) \o <<"}">>

\* genShaderSources, lines 346-351: the struct declarations of one shader
RECURSIVE structDeclarations(_, _)
structDeclarations(structs, i) ==
    IF i >= Len(structs) THEN <<>>
    ELSE (IF hasTypeName(structs[i + 1])
          THEN declareStructType(structs[i + 1], 0) \o <<";", "\n">>
          ELSE <<>>)
         \o structDeclarations(structs, i + 1)

\* The names a struct is created with: none, 'S', and the text 'undefined'.
StructTypeNames == {Undefined, JsString(<<"S">>), JsString(undefinedText)}

\* createStruct(name), addMember, a varying of the struct type or of an array
\* of it, and the texts declareVariable and genShaderSources make of them
DeclareStruct ==
    /\ tpPc = "in"
    /\ ~isStructType(tpType)
    /\ \E typeName \in StructTypeNames, numMembers \in 0..2, arraySize \in {0, 2, UNSIZED_ARRAY} :
         \E struct \in {IF numMembers = 0 THEN newStructType(typeName)
                        ELSE IF numMembers = 1
                        THEN addMember(newStructType(typeName), <<"x">>, tpType)
                        ELSE addMember(addMember(newStructType(typeName), <<"x">>, tpType),
                                       <<"y">>, highp("FLOAT"))} :
         \E varType \in {IF arraySize = 0 THEN VarTypeStruct(struct)
                         ELSE newTypeArray(VarTypeStruct(struct), arraySize)} :
           /\ tpCall' = [fn |-> "declareVariable", struct |-> struct, varType |-> varType,
                         name |-> v_varA]
           /\ tpResult' = Returned([hasTypeName |-> hasTypeName(struct),
                                    variable |-> declareVariable(varType, v_varA, 0),
                                    structs |-> structDeclarations(<<struct>>, 0)])
    /\ tpPc' = "called"
    /\ UNCHANGED <<tpType, tpSteps, tpPath, tpRange, tpValid, tpVarType, tpText, tpParsed,
                   tpIter, tpYield, tpNexts, tpRound, tpProgSpec, tpLayout, tpOutputs,
                   topoVars, runnerVars, historyVars, rtVars>>

\* hasArraysInTFVaryings(this.m_progSpec), as init calls it for a program
\* that did not link
HasArraysInTFVaryings ==
    /\ tpPc = "in"
    /\ IsFiniteType(tpType)
    /\ \E progSpec \in ProgramSpecs(tpType) :
         /\ tpCall' = [fn |-> "hasArraysInTFVaryings", spec |-> progSpec]
         /\ tpResult' = hasArraysInTFVaryings(progSpec)
    /\ tpPc' = "called"
    /\ UNCHANGED <<tpType, tpSteps, tpPath, tpRange, tpValid, tpVarType, tpText, tpParsed,
                   tpIter, tpYield, tpNexts, tpRound, tpProgSpec, tpLayout, tpOutputs,
                   topoVars, runnerVars, historyVars, rtVars>>

NextTypePath ==
    \/ GetAttributeName
    \/ HasArraysInTFVaryings
    \/ DeclareStruct
    \/ ValidateTypePath
    \/ ResolveTypePath
    \/ ParseTypePath
    \/ ParseAnyText
    \/ NewIterator
    \/ IteratorNext
    \/ RoundTrip
    \/ ComputeInputLayout
    \/ ComputeTransformFeedbackOutputs

SpecTypePath == InitTypePath /\ [][NextTypePath]_vars

\* The steps of the range the call was given.
RangeSteps == SubSeq(tpSteps, tpRange[1] + 1, tpRange[2])

\* Validity as the words of C13 define it, on the steps the caller asked for.
RECURSIVE StepsAreValid(_, _)
StepsAreValid(t, steps) ==
    IF steps = <<>> THEN TRUE
    ELSE LET s == Head(steps)
             rest == Tail(steps)
         IN  CASE s.type = "STRUCT_MEMBER" ->
                    /\ isStructType(t)
                    /\ s.index < Len(t.m_members)
                    /\ StepsAreValid(t.m_members[s.index + 1].m_type, rest)
               [] s.type = "ARRAY_ELEMENT" ->
                    /\ isArrayType(t)
                    /\ (t.size = UNSIZED_ARRAY \/ s.index < t.size)
                    /\ StepsAreValid(t.elementType, rest)
               [] s.type = "MATRIX_COLUMN" ->
                    /\ isBasicType(t)
                    /\ isDataTypeMatrix(t.type)
                    /\ s.index < getDataTypeMatrixNumColumns(t.type)
                    /\ \/ rest = <<>>
                       \/ /\ Len(rest) = 1
                          /\ rest[1].type = "VECTOR_COMPONENT"
                          /\ rest[1].index < getDataTypeMatrixNumRows(t.type)
               [] s.type = "VECTOR_COMPONENT" ->
                    /\ isBasicType(t)
                    /\ isDataTypeVector(t.type)
                    /\ s.index < getDataTypeScalarSize(t.type)
                    /\ rest = <<>>

\* C13: isValidTypePath returns true exactly for the paths that are zero or
\* more struct-member/array-element steps in bounds (any index for an unsized
\* array), then at most one matrix-column step below the column count, then
\* at most one vector-component step below the component count; for every
\* other path it returns false, and it never throws.
C13_ValidIffWellFormed ==
    tpPc \in {"validated", "resolved"} =>
        /\ ~tpValid.threw
        /\ tpValid.val = StepsAreValid(tpType, RangeSteps)

\* The type a path of stored components leads to, as the words of C14 give it.
RECURSIVE TypeReached(_, _)
TypeReached(t, path) ==
    IF path = <<>> THEN t
    ELSE CASE Head(path).type = "STRUCT_MEMBER" ->
                TypeReached(t.m_members[Head(path).index + 1].m_type, Tail(path))
           [] Head(path).type = "ARRAY_ELEMENT" ->
                TypeReached(t.elementType, Tail(path))
           [] Head(path).type = "MATRIX_COLUMN" ->
                TypeReached(newTypeBasic(getDataTypeFloatVec(getDataTypeMatrixNumRows(t.type)),
                                         t.precision), Tail(path))
           [] Head(path).type = "VECTOR_COMPONENT" ->
                TypeReached(newTypeBasic(getDataTypeScalarTypeAsDataType(t.type), t.precision),
                            Tail(path))

\* C14: getVarType and isValidTypePath never disagree: on the same root type,
\* path and sub-range getVarType throws iff isValidTypePath is false, and when
\* isValidTypePath is true getVarType returns the type the walk reaches.
C14_ResolveAgreesWithValidate ==
    tpPc = "resolved" =>
        /\ tpVarType.threw <=> (~tpValid.threw /\ ~tpValid.val)
        /\ (~tpValid.threw /\ tpValid.val) =>
               /\ ~tpVarType.threw
               /\ tpVarType.val = TypeReached(tpType, SubSeq(tpPath, tpRange[1] + 1, tpRange[2]))

\* The text is the variable name followed by the selectors of tpSteps and nothing else.
TextIsWellFormed == tpText = VaryingName \o selectorsText(tpSteps)

\* A path says what the selectors say, walking the root type.
RECURSIVE Denotes(_, _, _)
Denotes(t, path, ss) ==
    IF ss = <<>> THEN path = <<>>
    ELSE /\ path # <<>>
         /\ LET s == Head(ss)
                c == Head(path)
            IN  IF s.sel = "member"
                THEN /\ isStructType(t)
                     /\ c.type = "STRUCT_MEMBER"
                     /\ c.index < Len(t.m_members)
                     /\ t.m_members[c.index + 1].m_name = s.name
                     /\ Denotes(t.m_members[c.index + 1].m_type, Tail(path), Tail(ss))
                ELSE /\ c.index = s.n
                     /\ \/ /\ isArrayType(t)
                           /\ c.type = "ARRAY_ELEMENT"
                           /\ Denotes(t.elementType, Tail(path), Tail(ss))
                        \/ /\ isBasicType(t) /\ isDataTypeMatrix(t.type)
                           /\ c.type = "MATRIX_COLUMN"
                           /\ Denotes(newTypeBasic(getDataTypeFloatVec(getDataTypeMatrixNumRows(t.type)),
                                                   t.precision), Tail(path), Tail(ss))
                        \/ /\ isBasicType(t) /\ isDataTypeVector(t.type)
                           /\ c.type = "VECTOR_COMPONENT"
                           /\ Denotes(newTypeBasic(getDataTypeScalarTypeAsDataType(t.type),
                                                   t.precision), Tail(path), Tail(ss))

\* C15: every path parseTypePath returns is valid against the root and
\* denotes what the text says: '.name' gives a struct-member step with the
\* position of the member called name, '[n]' gives an array-element,
\* matrix-column or vector-component step with index exactly n, 0 included.
C15_ParsedPathIsValidAndFaithful ==
    (tpPc = "parsed" /\ TextIsWellFormed /\ ~tpParsed.threw) =>
        /\ \E valid \in {isValidTypePath(tpType, tpParsed.val, 0, Len(tpParsed.val))} :
              ~valid.threw /\ valid.val
        /\ Denotes(tpType, tpParsed.val, tpSteps)

\* C16: '[n]' on an array is bounds-checked unless the array is unsized: on
\* a sized array parseTypePath throws when n >= size, on an unsized array it
\* accepts every n >= 0 and adds an array-element step.
C16_SubscriptBoundsUnlessUnsized ==
    (tpPc = "parsed" /\ TextIsWellFormed /\ isArrayType(tpType)
        /\ Len(tpSteps) = 1 /\ tpSteps[1].sel = "subscript") =>
        IF tpType.size = UNSIZED_ARRAY
        THEN /\ ~tpParsed.threw
             /\ Len(tpParsed.val) = 1
             /\ tpParsed.val[1].type = "ARRAY_ELEMENT"
        ELSE tpSteps[1].n >= tpType.size => tpParsed.threw

Step(kind, index) == [type |-> kind, index |-> index]

\* The scalar-or-vector terminals of a finite type, depth first: struct
\* members in declaration order, array elements and matrix columns from 0.
RECURSIVE Terminals(_)
Terminals(t) ==
    CASE isBasicType(t) ->
            IF isDataTypeMatrix(t.type)
            THEN [c \in 1..getDataTypeMatrixNumColumns(t.type) |-> <<Step("MATRIX_COLUMN", c - 1)>>]
            ELSE << <<>> >>
      [] isArrayType(t) ->
            concatAll([e \in 1..t.size |->
                LET sub == Terminals(t.elementType)
                IN  [k \in 1..Len(sub) |-> <<Step("ARRAY_ELEMENT", e - 1)>> \o sub[k]]])
      [] isStructType(t) ->
            concatAll([m \in 1..Len(t.m_members) |->
                LET sub == Terminals(t.m_members[m].m_type)
                IN  [k \in 1..Len(sub) |-> <<Step("STRUCT_MEMBER", m - 1)>> \o sub[k]]])

\* C17: over a finite type VectorTypeIterator visits every scalar-or-vector
\* terminal exactly once in depth-first order (members in declaration order,
\* elements and columns from 0 upward), no call throws, and end() becomes
\* true after as many next() calls as there are terminals.
C17_IteratorVisitsTerminalsInOrder ==
    (tpPc \in {"iterating", "round"} /\ IsFiniteType(tpType)) =>
        /\ ~tpIter.threw
        /\ Len(tpYield) <= Len(Terminals(tpType))
        /\ tpYield = SubSeq(Terminals(tpType), 1, Len(tpYield))
        /\ tpIter.ended <=> tpNexts = Len(Terminals(tpType))
        /\ tpIter.ended => tpYield = Terminals(tpType)

\* C18: round trip: every path p the VectorTypeIterator visits over T is
\* valid against T, and parsing name + toString(p) against T gives a path q
\* that is is()-equivalent to p, with the same length and the same kind and
\* index at every position.
C18_RoundTrip ==
    tpPc = "round" =>
        /\ ~tpRound.valid.threw /\ tpRound.valid.val
        /\ ~tpRound.text.threw
        /\ ~tpRound.parsed.threw
        /\ tpRound.parsed.val = tpIter.m_path
        /\ ~tpRound.same.threw /\ tpRound.same.val

\* The types of the attributes a list of varyings calls for: the type at
\* every terminal of every varying, in order.
RECURSIVE TerminalTypes(_)
TerminalTypes(varyings) ==
    IF varyings = <<>> THEN <<>>
    ELSE [k \in 1..Len(Terminals(Head(varyings).type)) |->
            TypeReached(Head(varyings).type, Terminals(Head(varyings).type)[k])]
         \o TerminalTypes(Tail(varyings))

AttributeEnd(a) == a.offset + 4 * getScalarSize(a.type)

\* C19: computeInputLayout puts a_position first at offset 0, a_pointSize
\* (when requested) next at offset 16, then one attribute per vector-level
\* terminal of every varying in iterator order; every offset is a multiple
\* of 4, offsets increase strictly, each attribute starts where the previous
\* one ends, and the stride is the end of the last attribute.
C19_InputLayout ==
    tpPc \in {"layout", "outputs"} =>
        /\ ~tpLayout.threw
        /\ \E attrs \in {tpLayout.val.attributes},
              lead \in {IF isPointSizeUsed(tpProgSpec.m_transformFeedbackVaryings)
                        THEN <<highp("FLOAT_VEC4"), highp("FLOAT")>>
                        ELSE <<highp("FLOAT_VEC4")>>} :
             /\ [i \in 1..Len(attrs) |-> attrs[i].type]
                  = lead \o TerminalTypes(tpProgSpec.m_varyings)
             /\ attrs[1].name = <<"a", "_", "p", "o", "s", "i", "t", "i", "o", "n">>
             /\ attrs[1].offset = 0
             /\ Len(lead) = 2 =>
                  /\ attrs[2].name = <<"a", "_", "p", "o", "i", "n", "t", "S", "i", "z", "e">>
                  /\ attrs[2].offset = 16
             /\ \A i \in 1..Len(attrs) : attrs[i].offset % 4 = 0
             /\ \A i \in 2..Len(attrs) :
                  /\ attrs[i - 1].offset < attrs[i].offset
                  /\ attrs[i].offset = AttributeEnd(attrs[i - 1])
             /\ tpLayout.val.inputStride = AttributeEnd(attrs[Len(attrs)])

\* The bytes of the outputs before the i-th, and of the outputs of a buffer.
RECURSIVE BytesBefore(_, _)
BytesBefore(outputs, i) ==
    IF i <= 1 THEN 0
    ELSE BytesBefore(outputs, i - 1) + 4 * getScalarSize(outputs[i - 1].type)

RECURSIVE BufferBytes(_, _, _)
BufferBytes(outputs, bufferNdx, n) ==
    IF n = 0 THEN 0
    ELSE BufferBytes(outputs, bufferNdx, n - 1)
         + (IF outputs[n].bufferNdx = bufferNdx THEN 4 * getScalarSize(outputs[n].type) ELSE 0)

\* C20: computeTransformFeedbackOutputs creates one Output per captured name,
\* in list order; in separate mode Output i has bufferNdx i and offset 0, in
\* interleaved mode bufferNdx 0 and offset 4 times the scalar sizes of the
\* earlier Outputs' types; and the stride init computes for a buffer is the
\* sum of the byte sizes of the Outputs assigned to it.
C20_OutputsAndStrides ==
    tpPc = "outputs" =>
        /\ ~tpOutputs.threw
        /\ \E outs \in {tpOutputs.val.m_transformFeedbackOutputs},
              strides \in {tpOutputs.val.m_bufferStrides},
              names \in {tpProgSpec.m_transformFeedbackVaryings} :
             /\ Len(outs) = Len(names)
             /\ \A i \in 1..Len(outs) :
                  /\ outs[i].name = names[i]
                  /\ tpProgSpec.m_bufferMode = "SEPARATE_ATTRIBS" =>
                       outs[i].bufferNdx = i - 1 /\ outs[i].offset = 0
                  /\ tpProgSpec.m_bufferMode = "INTERLEAVED_ATTRIBS" =>
                       outs[i].bufferNdx = 0 /\ outs[i].offset = BytesBefore(outs, i)
                  /\ outs[i].bufferNdx < Len(strides)
             /\ \A b \in 1..Len(strides) : strides[b] = BufferBytes(outs, b - 1, Len(outs))

\* Two interleaved outputs, the second one subscripted and behind the first.
C20_Witness ==
    /\ tpPc = "outputs"
    /\ ~tpOutputs.threw
    /\ tpProgSpec.m_bufferMode = "INTERLEAVED_ATTRIBS"
    /\ Len(tpOutputs.val.m_transformFeedbackOutputs) = 2
    /\ tpOutputs.val.m_transformFeedbackOutputs[1].name = gl_Position
    /\ tpOutputs.val.m_transformFeedbackOutputs[2].name = v_varA \o <<"[", "1", "]">>
    /\ tpOutputs.val.m_transformFeedbackOutputs[2].offset = 16
    /\ tpOutputs.val.m_bufferStrides = <<20>>

\* The arithmetic of a returned layout, whatever attributes it holds.
LayoutArithmetic ==
    (tpPc \in {"layout", "outputs"} /\ ~tpLayout.threw) =>
        \E attrs \in {tpLayout.val.attributes} :
             /\ attrs[1].offset = 0
             /\ \A i \in 1..Len(attrs) : attrs[i].offset % 4 = 0
             /\ \A i \in 2..Len(attrs) :
                  /\ attrs[i - 1].offset < attrs[i].offset
                  /\ attrs[i].offset = AttributeEnd(attrs[i - 1])
             /\ tpLayout.val.inputStride = AttributeEnd(attrs[Len(attrs)])

RECURSIVE InputBytes(_, _)
InputBytes(inputs, n) ==
    IF n = 0 THEN 0 ELSE InputBytes(inputs, n - 1) + 4 * getScalarSize(inputs[n].type)

\* C21: every entry of an Output's inputs is an Attribute of the input layout,
\* never undefined, and the bytes of the inputs (4 per scalar) add up to the
\* bytes of the Output's resolved type.
C21_OutputPlanCoverage ==
    (tpPc = "outputs" /\ ~tpOutputs.threw) =>
        \A i \in 1..Len(tpOutputs.val.m_transformFeedbackOutputs) :
            \E out \in {tpOutputs.val.m_transformFeedbackOutputs[i]} :
                /\ \A k \in 1..Len(out.inputs) :
                     /\ out.inputs[k] # Undefined
                     /\ \E a \in 1..Len(tpLayout.val.attributes) :
                          tpLayout.val.attributes[a] = out.inputs[k]
                /\ (\A k \in 1..Len(out.inputs) : out.inputs[k] # Undefined) =>
                     InputBytes(out.inputs, Len(out.inputs)) = 4 * getScalarSize(out.type)

\* The suffix of one step, or Null for a step of no known kind.
StepSuffix(step) ==
    CASE step.type = "STRUCT_MEMBER"    -> <<"_", "m">> \o numberText(step.index)
      [] step.type = "ARRAY_ELEMENT"    -> <<"_", "e">> \o numberText(step.index)
      [] step.type = "MATRIX_COLUMN"    -> <<"_", "c">> \o numberText(step.index)
      [] step.type = "VECTOR_COMPONENT" -> <<"_", "s">> \o numberText(step.index)
      [] OTHER -> Null

WithoutPrefix(name) ==
    IF Len(name) >= 2 /\ name[1] = "v" /\ name[2] = "_"
    THEN [i \in 1..(Len(name) - 2) |-> name[i + 2]] ELSE name

\* C22: getAttributeName is 'a_', the varying name without a leading 'v_',
\* then per step in order '_m', '_e', '_c' or '_s' followed by the index; a
\* step of any other kind raises an error.
C22_AttributeName ==
    (tpPc = "called" /\ tpCall.fn = "getAttributeName") =>
        IF \E i \in 1..Len(tpCall.path) : StepSuffix(tpCall.path[i]) = Null
        THEN tpResult.threw
        ELSE /\ ~tpResult.threw
             /\ tpResult.val = <<"a", "_">> \o WithoutPrefix(tpCall.varyingName)
                                 \o concatAll([i \in 1..Len(tpCall.path) |->
                                                  StepSuffix(tpCall.path[i])])

\* 'v_varA' with a member step and an element step of two digits.
C22_Witness ==
    /\ tpPc = "called" /\ tpCall.fn = "getAttributeName"
    /\ tpCall.varyingName = v_varA
    /\ Len(tpCall.path) = 2
    /\ tpCall.path[1] = [type |-> "STRUCT_MEMBER", index |-> 0]
    /\ tpCall.path[2] = [type |-> "ARRAY_ELEMENT", index |-> BigIndex]
    /\ tpResult = Returned(<<"a", "_", "v", "a", "r", "A", "_", "m", "0", "_", "e">>
                           \o numberText(BigIndex))

(***************************************************************************)
(* Properties of hasArraysInTFVaryings (SpecTypePath)                      *)
(***************************************************************************)
\* The varying a captured path string names, and the type the string refers to.
CapturedVarying(progSpec, i) ==
    findAttributeNameEquals(progSpec.m_varyings,
                            parseVariableName(progSpec.m_transformFeedbackVaryings[i]).val)

CapturesArray(progSpec, i) ==
    \E varying \in {CapturedVarying(progSpec, i)} :
       /\ varying # Undefined
       /\ \/ isArrayType(varying.type)
          \/ \E path \in {parseTypePath(progSpec.m_transformFeedbackVaryings[i], varying.type)} :
                /\ ~path.threw
                /\ \E type \in {getVarType(varying.type, path.val, 0, Len(path.val))} :
                      ~type.threw /\ isArrayType(type.val)

\* C29: hasArraysInTFVaryings(spec) is true iff some captured path string
\* refers to a varying, or a part of one, whose type is an array; for a
\* program that captures only scalars, vectors and matrices it is false.
C29_HasArraysIffArrayCaptured ==
    (tpPc = "called" /\ tpCall.fn = "hasArraysInTFVaryings") =>
        tpResult = Returned(\E i \in 1..Len(tpCall.spec.m_transformFeedbackVaryings) :
                               CapturesArray(tpCall.spec, i))

\* What does hold: the function is true iff some captured string names a
\* declared varying, whatever its type.
HasArraysIffVaryingCaptured ==
    (tpPc = "called" /\ tpCall.fn = "hasArraysInTFVaryings") =>
        tpResult = Returned(\E i \in 1..Len(tpCall.spec.m_transformFeedbackVaryings) :
                               CapturedVarying(tpCall.spec, i) # Undefined)

\* A program with one float varying, captured whole: the function is true.
ScalarReportedAsArray ==
    /\ tpPc = "called" /\ tpCall.fn = "hasArraysInTFVaryings"
    /\ tpCall.spec.m_varyings = <<Varying(v_varA, highp("FLOAT"))>>
    /\ tpCall.spec.m_transformFeedbackVaryings = <<v_varA>>
    /\ tpResult = Returned(TRUE)

(***************************************************************************)
(* Properties of deinit and of the state iterate() keeps (Spec)            *)
(***************************************************************************)
Deinitialised(c) == deinitCalls[c] > 0 /\ c \notin live

LayoutCleared(obj) ==
    /\ obj.m_attributes = Null /\ obj.m_transformFeedbackOutputs = Null
    /\ obj.m_bufferStrides = Null /\ obj.m_inputStride = 0

\* C23: after deinit() of a case the context holds none of the objects the
\* case created in init() and in its runTest calls (output buffers, transform
\* feedback object, primitives-written query, attribute buffer), and the
\* attributes, outputs, buffer strides and input stride are cleared.
C23_DeinitReleasesEverything ==
    \A c \in Cases :
        Deinitialised(c) => (glObjects[c] = {} /\ LayoutCleared(cases[c]))

\* What does hold: deinit() clears the layout and deletes what init() created.
DeinitReleasesWhatInitCreated ==
    \A c \in Cases :
        Deinitialised(c) =>
            /\ glObjects[c] \subseteq {"query", "attribute buffer"}
            /\ LayoutCleared(cases[c])

\* A case whose only run passed, de-initialised: its query and its attribute
\* buffer are still held.
RunObjectsLeaked ==
    \E c \in Cases :
        /\ Deinitialised(c) /\ iterCase = c /\ iterCalls = 1
        /\ lastOutcome = [kind |-> "STOP", isOk |-> FALSE]
        /\ glObjects[c] = {"query", "attribute buffer"}

WithoutIndex(obj) == [obj EXCEPT !.m_iterNdx = 0]

\* C27: after any number of iterate() calls on an initialised case its
\* ProgramSpec, attributes, outputs, buffer strides and input stride (and
\* every other field but the iteration index) are what init() left; the
\* index counts the calls that returned.
C27_IterateKeepsLayout ==
    lastOutcome.kind # "none" =>
        /\ lastInit.test = iterCase
        /\ WithoutIndex(iterated) = WithoutIndex(lastInit.obj)
        /\ iterated.m_progSpec = CaseProgSpec[iterCase]
        /\ (~iterAfterThrow /\ lastOutcome.kind # "throw") =>
              iterated.m_iterNdx = iterCalls

\* The second iterate() of case a returned: three attributes of stride 32.
C27_Witness ==
    /\ lastOutcome.kind \in {"CONTINUE", "STOP"}
    /\ iterCase = "a" /\ iterCalls = 2
    /\ iterated.m_iterNdx = 2
    /\ Len(iterated.m_attributes) = 3
    /\ Len(iterated.m_transformFeedbackOutputs) = 2
    /\ iterated.m_bufferStrides = <<8, 8>>
    /\ iterated.m_inputStride = 32

(***************************************************************************)
(* Properties of struct declarations (SpecTypePath)                        *)
(***************************************************************************)
StartsWith(text, prefix) ==
    Len(text) >= Len(prefix) /\ SubSeq(text, 1, Len(prefix)) = prefix

EndsWith(text, suffix) ==
    Len(text) >= Len(suffix)
    /\ SubSeq(text, Len(text) - Len(suffix) + 1, Len(text)) = suffix

StructKeyword == <<"s", "t", "r", "u", "c", "t">>

\* C24: a struct created without a name has no type name, a variable of its
\* type is declared with the inline "struct { ... }" text, and the shader
\* gets no separate declaration of it; a struct created with a name is
\* referred to by that name and declared once.
C24_UnnamedStructsInline ==
    (tpPc = "called" /\ tpCall.fn = "declareVariable") =>
        /\ ~tpResult.threw
        /\ IF tpCall.struct.m_typeName = Undefined
           THEN /\ ~tpResult.val.hasTypeName
                /\ StartsWith(tpResult.val.variable, StructKeyword \o <<"\n", "{">>)
                /\ tpResult.val.structs = <<>>
           ELSE /\ tpResult.val.hasTypeName
                /\ StartsWith(tpResult.val.variable,
                              tpCall.struct.m_typeName.str \o <<" ">> \o tpCall.name)
                /\ StartsWith(tpResult.val.structs,
                              StructKeyword \o <<" ">> \o tpCall.struct.m_typeName.str
                                  \o <<"\n", "{">>)
                /\ EndsWith(tpResult.val.structs, <<"}", ";", "\n">>)

\* What does hold: a struct is unnamed only when its name is the text
\* 'undefined'; every other struct, the one created without a name
\* included, is referred to by the text of its name and declared once.
StructsNamedUnlessTextUndefined ==
    (tpPc = "called" /\ tpCall.fn = "declareVariable") =>
        /\ ~tpResult.threw
        /\ IF tpCall.struct.m_typeName = JsString(undefinedText)
           THEN /\ ~tpResult.val.hasTypeName
                /\ StartsWith(tpResult.val.variable, StructKeyword \o <<"\n", "{">>)
                /\ tpResult.val.structs = <<>>
           ELSE /\ tpResult.val.hasTypeName
                /\ StartsWith(tpResult.val.variable,
                              toText(tpCall.struct.m_typeName) \o <<" ">> \o tpCall.name)
                /\ StartsWith(tpResult.val.structs,
                              StructKeyword \o <<" ">> \o toText(tpCall.struct.m_typeName)
                                  \o <<"\n", "{">>)

\* A struct created without a name, with one member: it has a type name,
\* and its variable is declared as "undefined v_varA".
UnnamedStructNamedUndefined ==
    /\ tpPc = "called" /\ tpCall.fn = "declareVariable"
    /\ tpCall.struct.m_typeName = Undefined
    /\ Len(tpCall.struct.m_members) = 1
    /\ tpCall.varType = VarTypeStruct(tpCall.struct)
    /\ tpResult.val.hasTypeName
    /\ tpResult.val.variable = undefinedText \o <<" ">> \o v_varA
    /\ tpResult.val.structs # <<>>

(***************************************************************************)
(* Properties of the grammar of parseTypePath (SpecTypePath)               *)
(***************************************************************************)
IsIdentifierText(chars) ==
    /\ chars # <<>>
    /\ chars[1] \in Letters \cup {"_"}
    /\ \A i \in 1..Len(chars) : chars[i] \in Letters \cup {"_"} \/ isNum(chars[i])

IsNumberText(chars) == chars # <<>> /\ \A i \in 1..Len(chars) : isNum(chars[i])

\* (('.' identifier) | ('[' number ']'))*
RECURSIVE IsStepsText(_)
IsStepsText(chars) ==
    \/ chars = <<>>
    \/ /\ Head(chars) = "."
       /\ \E k \in 2..Len(chars) :
             /\ IsIdentifierText(SubSeq(chars, 2, k))
             /\ IsStepsText(SubSeq(chars, k + 1, Len(chars)))
    \/ /\ Head(chars) = "["
       /\ \E k \in 2..(Len(chars) - 1) :
             /\ IsNumberText(SubSeq(chars, 2, k))
             /\ chars[k + 1] = "]"
             /\ IsStepsText(SubSeq(chars, k + 2, Len(chars)))

\* identifier (('.' identifier) | ('[' number ']'))*
InGrammar(chars) ==
    \E k \in 1..Len(chars) :
        /\ IsIdentifierText(SubSeq(chars, 1, k))
        /\ IsStepsText(SubSeq(chars, k + 1, Len(chars)))

\* The selectors of a text: its '.' and its '['.
NumSelectors(chars) == Cardinality({i \in 1..Len(chars) : chars[i] \in {".", "["}})

\* C26: parseTypePath throws for every text that is not of the grammar
\* identifier (('.' identifier) | ('[' number ']'))*, a text without the
\* leading identifier included; the path it returns has one step per
\* selector and none for the leading identifier.
C26_OnlyGrammarAccepted ==
    (tpPc = "called" /\ tpCall.fn = "parseTypePath") =>
        /\ ~InGrammar(tpCall.nameWithPath) => tpResult.threw
        /\ ~tpResult.threw => Len(tpResult.val) = NumSelectors(tpCall.nameWithPath)

\* What does hold: the same, for the selectors and the tail alone; the
\* leading identifier is optional.
OnlyStepsChecked ==
    (tpPc = "called" /\ tpCall.fn = "parseTypePath") =>
        /\ (~InGrammar(tpCall.nameWithPath) /\ ~IsStepsText(tpCall.nameWithPath))
              => tpResult.threw
        /\ ~tpResult.threw => Len(tpResult.val) = NumSelectors(tpCall.nameWithPath)

\* '[1]' without a name, on an array: the path of one element step is returned.
NamelessTextAccepted ==
    /\ tpPc = "called" /\ tpCall.fn = "parseTypePath"
    /\ tpCall.nameWithPath = <<"[", "1", "]">>
    /\ isArrayType(tpCall.type)
    /\ ~tpResult.threw
    /\ Len(tpResult.val) = 1

(***************************************************************************)
(* Properties of the capture pass of runTest (SpecRunTest)                 *)
(***************************************************************************)
LogPositions(op) == {k \in 1..Len(glLog) : glLog[k].op = op}

CapturePassLeft == rtPc \notin {"idle", "setup", "begin", "draw"}

\* Once the capture pass is left, the one glBeginTransformFeedback of the
\* log is followed by one glEndTransformFeedback, the last command of the log.
OneEndPerBegin ==
    (CapturePassLeft /\ LogPositions("begin") # {}) =>
        /\ Cardinality(LogPositions("begin")) = 1
        /\ LogPositions("end") = {Len(glLog)}

\* glEndTransformFeedback is not issued while capture is paused: when the
\* command before it found capture paused, that command is the resume of
\* the finally block.
NoEndWhilePaused ==
    \A k \in LogPositions("end") :
        /\ glLog[k].tf # "paused"
        /\ (k > 1 /\ glLog[k - 1].tf = "paused") =>
              glLog[k - 1] = Command("resume", -1, 0, 0, "paused")

\* A throw out of the try block of the draw loop deletes the query first.
QueryDeletedOnLoopError ==
    (rtPc \in {"begin", "draw"} /\ rtPc' = "thrown") => glQuery' = "deleted"

\* C28: every glBeginTransformFeedback of runTest is followed by exactly one
\* glEndTransformFeedback before runTest goes on or throws, also when a
\* pause, a resume or a draw raises an error; glEndTransformFeedback is not
\* issued while capture is paused; an error in the draw loop deletes the
\* primitives-written query before it propagates.
C28_FeedbackBracketed ==
    [](OneEndPerBegin /\ NoEndWhilePaused) /\ [][QueryDeletedOnLoopError]_vars

\* The draw of a paused call raised an error: resume, end, query deleted.
C28_Witness ==
    /\ rtPc = "thrown" /\ glQuery = "deleted"
    /\ Len(glLog) = 5
    /\ [k \in 1..5 |-> glLog[k].op] = <<"begin", "pause", "draw", "resume", "end">>
    /\ glLog[5].tf = "active"
    /\ glTf = "inactive"

(***************************************************************************)
(* Properties of DeqpTest.next and reset (SpecTree)                        *)
(***************************************************************************)
\* The leaves under a node, depth first, children in the order of addChild.
RECURSIVE LeavesOf(_)
RECURSIVE LeavesFrom(_, _)
LeavesOf(n) == IF spec[n] = <<>> THEN <<n>> ELSE LeavesFrom(n, 1)

LeavesFrom(n, i) ==
    IF i > Len(spec[n]) THEN <<>>
    ELSE LeavesOf(spec[n][i]) \o LeavesFrom(n, i + 1)

\* C30: the calls of next() on the root, from the start and again after
\* every reset(), return the leaves of the tree once each in depth-first
\* declaration order and null from then on; a node that has children is
\* never returned.
C30_NextEnumeratesLeaves ==
    \A k \in 1..Len(returned) :
        /\ returned[k] = IF k <= Len(LeavesOf("root")) THEN LeavesOf("root")[k] ELSE Null
        /\ returned[k] # Null => spec[returned[k]] = <<>>

\* After a reset(): the three leaves of a two-level tree, then null twice.
C30_Witness ==
    /\ resets > 0
    /\ spec["g"] # <<>>
    /\ Len(LeavesOf("root")) = 3
    /\ Len(returned) = 5
    /\ SubSeq(returned, 1, 3) = LeavesOf("root")
    /\ returned[4] = Null /\ returned[5] = Null

(***************************************************************************)
(* C25: the run ends                                                       *)
(***************************************************************************)
\* The context raises an error every time one case runs its first script.
FaultInFirstIteration == faulty # NoFault /\ faulty.script = s_iterate_iterations[1]

\* The context raises an error every time one case runs a later script.
FaultInLaterIteration == faulty # NoFault /\ faulty.script # s_iterate_iterations[1]

\* C25: with every scheduled callback run, runTestCases reaches terminate(),
\* also when iterate() of a case throws every time it is called on one script.
C25_RunTerminates == <>terminated

\* What the code gives: the run ends when the script that keeps throwing is
\* the first of its case or when no script keeps throwing.
RunTerminatesUnlessLaterFault == FaultInLaterIteration \/ <>terminated

\* The same iterate() call has thrown on the same script again, after a
\* CONTINUE that is still in DeqpTest.lastResult.
ThrowingScriptRetried ==
    /\ FaultInLaterIteration
    /\ lastOutcome.kind = "throw" /\ lastResult = "CONTINUE"
    /\ iterCase = faulty.test /\ scriptRun = faulty.script
    /\ iterCalls = MaxIterCalls
    /\ ~terminated

====
